---------------------------- MODULE Spec2Model ----------------------------
(***************************************************************************)
(* Model of the record-linkage / deduplication engine of                   *)
(* src/src/tools/dj_set_processor/generate_summaries.py:                   *)
(*   deduplicate_rows_with_soft_match                  (simple variant)    *)
(*   deduplicate_rows_with_soft_match_complete_summary (complete variant)  *)
(* A Python str is a sequence of one-character strings, so that lower(),   *)
(* strip(), the \d{4} test, int(), str() and difflib's matching are        *)
(* computed on the characters.  Indices are 1-based here, 0-based in the   *)
(* source.  Floats are modelled as exact fractions.                        *)
(***************************************************************************)
EXTENDS Integers, Sequences, FiniteSets, TLC

(* ------------------------------ str ----------------------------------- *)

UpperChars == <<"A","B","C","D","E","F","G","H","I","J","K","L","M",
                "N","O","P","Q","R","S","T","U","V","W","X","Y","Z">>
LowerChars == <<"a","b","c","d","e","f","g","h","i","j","k","l","m",
                "n","o","p","q","r","s","t","u","v","w","x","y","z">>
DigitChars == <<"0","1","2","3","4","5","6","7","8","9">>
Whitespace == {" ", "\t", "\n", "\r"}

Punctuation == {"(", ")", "|", "+", "-", "_", ".", ","}
Alphabet ==
    {UpperChars[k] : k \in 1..26} \cup {LowerChars[k] : k \in 1..26}
    \cup {DigitChars[k] : k \in 1..10} \cup Whitespace \cup Punctuation

\* str.lower() on one character
LowerChar ==
    [c \in Alphabet |->
        IF \E k \in 1..26 : UpperChars[k] = c
        THEN LowerChars[CHOOSE k \in 1..26 : UpperChars[k] = c]
        ELSE c]

\* str.lower()
lower(s) == [k \in 1..Len(s) |-> LowerChar[s[k]]]

\* str.strip(): drop leading and trailing whitespace
strip(s) ==
    LET keep == {k \in 1..Len(s) : s[k] \notin Whitespace}
    IN  IF keep = {} THEN <<>>
        ELSE LET lo == CHOOSE k \in keep : \A m \in keep : k <= m
                 hi == CHOOSE k \in keep : \A m \in keep : k >= m
             IN  SubSeq(s, lo, hi)

\* re.match(r"^\d{4}$", h): four digits; $ also matches before one final "\n"
IsYearHeader(h) ==
    LET core == IF Len(h) = 5 /\ h[5] = "\n" THEN SubSeq(h, 1, 4) ELSE h
    IN  /\ Len(core) = 4
        /\ \A k \in 1..4 : core[k] \in {DigitChars[d] : d \in 1..10}

Digits == {DigitChars[d] : d \in 1..10}
IsDigit(c) == c \in Digits
DigitValue(c) == (CHOOSE d \in 1..10 : DigitChars[d] = c) - 1

RECURSIVE DigitsValue(_)
DigitsValue(s) ==
    IF Len(s) = 0 THEN 0
    ELSE 10 * DigitsValue(SubSeq(s, 1, Len(s) - 1)) + DigitValue(s[Len(s)])

\* int(s) with ValueError caught as 0: surrounding whitespace and one sign
\* are accepted, then decimal digits, single underscores allowed between them
IntOrZero(s) ==
    LET t == strip(s)
        signed == Len(t) > 0 /\ t[1] \in {"+", "-"}
        body == IF signed THEN SubSeq(t, 2, Len(t)) ELSE t
        valid  == /\ Len(body) > 0
                  /\ IsDigit(body[1]) /\ IsDigit(body[Len(body)])
                  /\ \A k \in 1..Len(body) : IsDigit(body[k]) \/ body[k] = "_"
                  /\ \A k \in 1..(Len(body) - 1) : ~(body[k] = "_" /\ body[k + 1] = "_")
        digits == SelectSeq(body, IsDigit)
    IN  IF ~valid THEN 0
        ELSE IF signed /\ t[1] = "-" THEN 0 - DigitsValue(digits)
        ELSE DigitsValue(digits)

RECURSIVE NatStr(_)
NatStr(n) ==
    IF n < 10 THEN <<DigitChars[n + 1]>>
    ELSE Append(NatStr(n \div 10), DigitChars[(n % 10) + 1])

\* str(n) of an int
IntStr(n) == IF n < 0 THEN <<"-">> \o NatStr(0 - n) ELSE NatStr(n)


(* --------------------------- helpers.py ------------------------------- *)

Min3(x, y, z) == IF x <= y /\ x <= z THEN x ELSE IF y <= z THEN y ELSE z

\* row i of the dp table of levenshtein_distance, built from row i - 1
RECURSIVE LevRow(_, _, _, _, _)
LevRow(a, b, i, prev, cur) ==
    IF Len(cur) = Len(b) + 1 THEN cur
    ELSE LET j == Len(cur)
             cost == IF a[i] = b[j] THEN 0 ELSE 1
         IN  LevRow(a, b, i, prev,
                    Append(cur, Min3(prev[j + 1] + 1, cur[j] + 1, prev[j] + cost)))

RECURSIVE LevRows(_, _, _, _)
LevRows(a, b, i, prev) ==
    IF i > Len(a) THEN prev
    ELSE LET row == LevRow(a, b, i, prev, <<i>>)
         IN  \* row i is filled to its end before row i + 1 is begun
             IF Len(row) = Len(b) + 1 THEN LevRows(a, b, i + 1, row) ELSE row

\* helpers.levenshtein_distance(a, b): dp[m][n]
levenshtein_distance(a, b) ==
    LevRows(a, b, 1, [j \in 1..(Len(b) + 1) |-> j - 1])[Len(b) + 1]

\* re.sub(r"\s*\([^)]*\)", "", value) of helpers.clean_title: every leftmost
\* run of whitespace followed by "(" up to the next ")" is removed
RECURSIVE RemoveParens(_)
RemoveParens(s) ==
    IF Len(s) = 0 THEN <<>>
    ELSE LET nonws == {k \in 1..Len(s) : s[k] \notin Whitespace}
             q == IF nonws = {} THEN 0
                  ELSE CHOOSE k \in nonws : \A m \in nonws : k <= m
             closing == {r \in 1..Len(s) : r > q /\ s[r] = ")"}
         IN  IF q # 0 /\ s[q] = "(" /\ closing # {}
             THEN RemoveParens(SubSeq(s, (CHOOSE r \in closing : \A m \in closing : r <= m) + 1,
                                      Len(s)))
             ELSE <<s[1]>> \o RemoveParens(Tail(s))

(* --------------------------- difflib ---------------------------------- *)

\* length of the common run of a and b starting at a[i], b[j]
RECURSIVE CommonRun(_, _, _, _)
CommonRun(a, b, i, j) ==
    IF i > Len(a) \/ j > Len(b) THEN 0
    ELSE IF a[i] # b[j] THEN 0
    ELSE 1 + CommonRun(a, b, i + 1, j + 1)

\* SequenceMatcher.find_longest_match over the whole of a and b (no junk;
\* autojunk only acts on sequences of 200 or more elements): the longest
\* block, of those the one starting earliest in a, of those the one
\* starting earliest in b
FindLongestMatch(a, b) ==
    LET run == [i \in 1..Len(a) |-> [j \in 1..Len(b) |-> CommonRun(a, b, i, j)]]
        best == CHOOSE k \in 0..Len(a) :
                  /\ \A i \in 1..Len(a) : \A j \in 1..Len(b) : run[i][j] <= k
                  /\ k > 0 => \E i \in 1..Len(a) : \E j \in 1..Len(b) : run[i][j] = k
    IN  IF Len(a) = 0 \/ Len(b) = 0 \/ best = 0 THEN [i |-> 1, j |-> 1, k |-> 0]
        ELSE LET bi == CHOOSE i \in 1..Len(a) :
                         /\ \E j \in 1..Len(b) : run[i][j] = best
                         /\ \A m \in 1..(i - 1) : \A j \in 1..Len(b) : run[m][j] < best
                 bj == CHOOSE j \in 1..Len(b) :
                         /\ run[bi][j] = best
                         /\ \A m \in 1..(j - 1) : run[bi][m] < best
             IN  [i |-> bi, j |-> bj, k |-> best]

\* SequenceMatcher.get_matching_blocks: total size of the blocks found by
\* taking the longest match and recursing to its left and to its right
RECURSIVE MatchingTotal(_, _)
MatchingTotal(a, b) ==
    LET m == FindLongestMatch(a, b)
    IN  IF m.k = 0 THEN 0
        ELSE m.k
             + MatchingTotal(SubSeq(a, 1, m.i - 1), SubSeq(b, 1, m.j - 1))
             + MatchingTotal(SubSeq(a, m.i + m.k, Len(a)), SubSeq(b, m.j + m.k, Len(b)))

(* ------------------------- fractions ---------------------------------- *)

Frac(n, d) == [num |-> n, den |-> d]
FracAdd(x, y) == Frac(x.num * y.den + y.num * x.den, x.den * y.den)
\* x >= 0.5
AtLeastHalf(x) == 2 * x.num >= x.den

(* ------------------ generate_summaries.py helpers --------------------- *)

\* mutant: the edit-distance similarity of helpers.string_similarity
string_similarity_by_distance(a, b) ==
    IF Len(a) = 0 \/ Len(b) = 0 THEN Frac(0, 1)
    ELSE LET longest == IF Len(a) >= Len(b) THEN Len(a) ELSE Len(b)
         IN  Frac(longest - levenshtein_distance(a, b), longest)

\* string_similarity(a, b): SequenceMatcher(None, a, b).ratio(), which is
\* 2.0 * matches / (len(a) + len(b)), and 1.0 when both are empty
string_similarity(a, b) ==
    IF Len(a) + Len(b) = 0 THEN Frac(1, 1)
    ELSE Frac(2 * MatchingTotal(a, b), Len(a) + Len(b))

\* clean_title(title): title.lower().strip()
clean_title(title) == strip(lower(title))

\* get_shared_filled_fields(data1, data2, indices)
RECURSIVE get_shared_filled_fields(_, _, _)
get_shared_filled_fields(data1, data2, indices) ==
    IF Len(indices) = 0 THEN 0
    ELSE LET idx == indices[Len(indices)]
             rest == get_shared_filled_fields(data1, data2, SubSeq(indices, 1, Len(indices) - 1))
         IN  IF data1[idx.index] # <<>> /\ data2[idx.index] # <<>> THEN rest + 1 ELSE rest

\* the loop of get_dedup_match_score: [total_score, count]
RECURSIVE ScoreLoop(_, _, _)
ScoreLoop(data1, data2, indices) ==
    IF Len(indices) = 0 THEN [total_score |-> Frac(0, 1), count |-> 0]
    ELSE LET idx == indices[Len(indices)]
             rest == ScoreLoop(data1, data2, SubSeq(indices, 1, Len(indices) - 1))
             v1 == data1[idx.index]
             v2 == data2[idx.index]
         IN  IF v1 # <<>> /\ v2 # <<>>
             THEN [total_score |-> FracAdd(rest.total_score, string_similarity(v1, v2)),
                   count |-> rest.count + 1]
             ELSE rest

\* mutant: an index with an empty side is counted as a full match
RECURSIVE get_dedup_match_score_counting_empties(_, _, _)
get_dedup_match_score_counting_empties(data1, data2, indices) ==
    IF Len(indices) = 0 THEN Frac(0, 1)
    ELSE LET idx == indices[Len(indices)]
             front == SubSeq(indices, 1, Len(indices) - 1)
             rest == get_dedup_match_score_counting_empties(data1, data2, front)
             v1 == data1[idx.index]
             v2 == data2[idx.index]
             term == IF v1 # <<>> /\ v2 # <<>> THEN string_similarity(v1, v2) ELSE Frac(1, 1)
         IN  \* the mean over n indices from the mean over the first n - 1
             Frac(rest.num * term.den * Len(front) + term.num * rest.den,
                  rest.den * term.den * Len(indices))

\* get_dedup_match_score(data1, data2, indices): 0 when no index is filled
\* on both sides, else total_score / count
get_dedup_match_score(data1, data2, indices) ==
    LET l == ScoreLoop(data1, data2, indices)
    IN  IF l.count = 0 THEN Frac(0, 1)
        ELSE Frac(l.total_score.num, l.total_score.den * l.count)

(* ------------------- helpers.py, the same names ----------------------- *)

\* helpers.clean_title(value): re.sub(r"\s*\([^)]*\)", "", value).strip()
helpers_clean_title(value) == strip(RemoveParens(value))

\* helpers.string_similarity(a, b): 0 if either is empty, else
\* 1 - d / max(len(a), len(b))
helpers_string_similarity(a, b) ==
    IF Len(a) = 0 \/ Len(b) = 0 THEN Frac(0, 1)
    ELSE LET longest == IF Len(a) >= Len(b) THEN Len(a) ELSE Len(b)
         IN  Frac(longest - levenshtein_distance(a, b), longest)

\* helpers.get_dedup_match_score, the loop: [matches, total]
RECURSIVE HelpersScoreLoop(_, _, _)
HelpersScoreLoop(row_a, row_b, dedup_indices) ==
    IF Len(dedup_indices) = 0 THEN [matches |-> 0, total |-> 0]
    ELSE LET dedup == dedup_indices[Len(dedup_indices)]
             rest == HelpersScoreLoop(row_a, row_b,
                                      SubSeq(dedup_indices, 1, Len(dedup_indices) - 1))
             a == lower(strip(row_a[dedup.index]))
             b == lower(strip(row_b[dedup.index]))
             hit == \/ a = <<>>
                    \/ b = <<>>
                    \/ AtLeastHalf(helpers_string_similarity(a, b))
                    \/ /\ dedup.field = <<"T","i","t","l","e">>
                       /\ helpers_clean_title(a) = helpers_clean_title(b)
         IN  [matches |-> rest.matches + (IF hit THEN 1 ELSE 0), total |-> rest.total + 1]

\* helpers.get_dedup_match_score(row_a, row_b, dedup_indices):
\* matches / total if total > 0 else 0
helpers_get_dedup_match_score(row_a, row_b, dedup_indices) ==
    LET l == HelpersScoreLoop(row_a, row_b, dedup_indices)
    IN  IF l.total > 0 THEN Frac(l.matches, l.total) ELSE Frac(0, 1)

(* --------------------------- headers ---------------------------------- *)

Title   == <<"T","i","t","l","e">>
Remix   == <<"R","e","m","i","x">>
Artist  == <<"A","r","t","i","s","t">>
Comment == <<"C","o","m","m","e","n","t">>
Genre   == <<"G","e","n","r","e">>
Year    == <<"Y","e","a","r">>
BPM     == <<"B","P","M">>
Length  == <<"L","e","n","g","t","h">>

\* mutant: Length is compared as a secondary field
dedup_fields_and_length == <<Title, Remix, Artist, Comment, Genre, Year, BPM, Length>>

dedup_fields   == <<Title, Remix, Artist, Comment, Genre, Year, BPM>>
desired_order  == <<Title, Remix, Artist, Comment, Genre, Year, BPM, Length>>
primary_names  == <<Title, Remix, Artist>>

InSeq(x, s) == \E k \in 1..Len(s) : s[k] = x
Range(s) == {s[k] : k \in 1..Len(s)}

\* list.index(x): position of the first occurrence
IndexOf(s, x) == CHOOSE k \in 1..Len(s) : s[k] = x /\ \A m \in 1..(k - 1) : s[m] # x

MapSeq(s, F(_)) == [k \in 1..Len(s) |-> F(s[k])]

\* key in {h.lower(): ... for h in header}
HasLowerKey(header, key) == \E k \in 1..Len(header) : lower(header[k]) = key

\* {h.lower(): i for i, h in enumerate(header)}[key]: a dict keeps the value
\* of the last item written under a key
LastLowerIndex(header, key) ==
    CHOOSE k \in 1..Len(header) :
        /\ lower(header[k]) = key
        /\ \A m \in (k + 1)..Len(header) : lower(header[m]) # key

\* lower_header_map = {h.lower(): h for h in all_headers}; lower_header_map[key]
lower_header_map(all_headers, key) == all_headers[LastLowerIndex(all_headers, key)]

\* headers = [lower_header_map[h.lower()] for h in desired_order
\*            if h.lower() in lower_header_map]
ProjectedHeaders(all_headers) ==
    LET Present(h) == HasLowerKey(all_headers, lower(h))
        Original(h) == lower_header_map(all_headers, lower(h))
    IN  MapSeq(SelectSeq(desired_order, Present), Original)

\* simple variant: the projected headers
SimpleHeaders(all_headers) == ProjectedHeaders(all_headers)

\* complete variant: year_cols = [h for h in all_headers if re.match(...)];
\* headers.extend([y for y in year_cols if y not in headers])
CompleteHeaders(all_headers) ==
    LET base == ProjectedHeaders(all_headers)
        NewYear(h) == IsYearHeader(h) /\ ~InSeq(h, base)
    IN  base \o SelectSeq(all_headers, NewYear)

\* simple variant: primary_fields = [f for f in [...] if f in headers]
SimplePrimaryFields(all_headers) ==
    LET InHeaders(f) == InSeq(f, SimpleHeaders(all_headers))
    IN  SelectSeq(primary_names, InHeaders)

\* simple variant: secondary_fields = [f for f in dedup_fields
\*                   if f not in primary_fields and f in headers]
SimpleSecondaryFields(all_headers) ==
    LET Sec(f) == /\ ~InSeq(f, SimplePrimaryFields(all_headers))
                  /\ InSeq(f, SimpleHeaders(all_headers))
    IN  SelectSeq(dedup_fields, Sec)

\* complete variant: primary_fields, looked up case-insensitively and then
\* replaced by the observed spelling
CompletePrimaryFields(all_headers) ==
    LET Present(f) == HasLowerKey(all_headers, lower(f))
        Original(f) == lower_header_map(all_headers, lower(f))
    IN  MapSeq(SelectSeq(primary_names, Present), Original)

\* complete variant: secondary_fields; "f not in primary_fields" compares the
\* canonical spelling with the observed spellings
CompleteSecondaryFields(all_headers) ==
    LET Sec(f) == /\ ~InSeq(f, CompletePrimaryFields(all_headers))
                  /\ HasLowerKey(all_headers, lower(f))
        Original(f) == lower_header_map(all_headers, lower(f))
    IN  MapSeq(SelectSeq(dedup_fields, Sec), Original)

HeadersOf(v, all_headers) ==
    IF v = "simple" THEN SimpleHeaders(all_headers) ELSE CompleteHeaders(all_headers)

\* [{"field": f, "index": headers.index(f)} for f in fields]
FieldIndices(fields, headers) ==
    [k \in 1..Len(fields) |-> [field |-> fields[k], index |-> IndexOf(headers, fields[k])]]

PrimaryIndices(v, all_headers) ==
    FieldIndices(IF v = "simple" THEN SimplePrimaryFields(all_headers)
                 ELSE CompletePrimaryFields(all_headers), HeadersOf(v, all_headers))

SecondaryIndices(v, all_headers) ==
    FieldIndices(IF v = "simple" THEN SimpleSecondaryFields(all_headers)
                 ELSE CompleteSecondaryFields(all_headers), HeadersOf(v, all_headers))

(* -------------------------- alignment --------------------------------- *)

\* header_map = {h.lower(): i for i, h in enumerate(header)}
HeaderMap(header) ==
    [key \in {lower(header[k]) : k \in 1..Len(header)} |-> LastLowerIndex(header, key)]

\* header_map.get(h.lower()): the column of h in the sheet, 0 for None
HeaderMapGet(hmap, h) ==
    IF lower(h) \in DOMAIN hmap THEN hmap[lower(h)] ELSE 0

\* simple variant, first comprehension: row[header_map.get(h.lower(), "")]
\* is evaluated for every canonical header the sheet has, and raises
\* IndexError when the row is shorter than that column
FirstAlignRaises(hdrs, hmap, row) ==
    \E k \in 1..Len(hdrs) :
        /\ HeaderMapGet(hmap, hdrs[k]) # 0
        /\ HeaderMapGet(hmap, hdrs[k]) > Len(row)

\* the guarded loop: aligned.append(row[idx]) if idx is not None and
\* idx < len(row) else aligned.append("")
AlignRow(hdrs, hmap, row) ==
    [k \in 1..Len(hdrs) |->
        LET idx == HeaderMapGet(hmap, hdrs[k])
        IN  IF idx # 0 /\ idx <= Len(row) THEN row[idx] ELSE <<>>]

(* ------------------------- exact grouping ----------------------------- *)

\* mutant: the secondary comparison without its tolerance of empty values
MatchesGroupStrict(aligned, other, pidx, sidx) ==
    /\ \A p \in 1..Len(pidx) : aligned[pidx[p].index] = other[pidx[p].index]
    /\ \A s \in 1..Len(sidx) : aligned[sidx[s].index] = other[sidx[s].index]

\* matches_all_primary and secondary_match of one group
MatchesGroup(aligned, other, pidx, sidx) ==
    /\ \A p \in 1..Len(pidx) : aligned[pidx[p].index] = other[pidx[p].index]
    /\ \A s \in 1..Len(sidx) :
          \/ aligned[sidx[s].index] = <<>>
          \/ other[sidx[s].index] = <<>>
          \/ aligned[sidx[s].index] = other[sidx[s].index]

\* the group the "for group in deduped_rows" loop breaks at, 0 when the loop
\* runs to its end with matched = False
FirstMatch(groups, aligned, pidx, sidx) ==
    IF \E g \in 1..Len(groups) : MatchesGroup(aligned, groups[g].data, pidx, sidx)
    THEN CHOOSE g \in 1..Len(groups) :
            /\ MatchesGroup(aligned, groups[g].data, pidx, sidx)
            /\ \A m \in 1..(g - 1) : ~MatchesGroup(aligned, groups[m].data, pidx, sidx)
    ELSE 0

\* mutant: the years are summed and the other cells are taken from the row
MergeYearsTakesRow(hdrs, aligned, other) ==
    [i \in 1..Len(hdrs) |->
        IF IsYearHeader(hdrs[i])
        THEN IntStr(IntOrZero(aligned[i]) + IntOrZero(other[i]))
        ELSE aligned[i]]

\* mutant: the years are left as the group has them, as in the simple variant
MergeYearsForgotten(hdrs, aligned, other) == other

\* complete variant: other[i] = str(val_a + val_b) for every year header
MergeYears(hdrs, aligned, other) ==
    [i \in 1..Len(hdrs) |->
        IF IsYearHeader(hdrs[i])
        THEN IntStr(IntOrZero(aligned[i]) + IntOrZero(other[i]))
        ELSE other[i]]

\* mutant: the count is not incremented on a match
BumpCountForgotten(group) == group

\* group["count"] += 1
BumpCount(group) == [group EXCEPT !.count = @ + 1]

\* deduped_rows.append({"data": aligned, "count": 1, "match": ""})
NewGroup(aligned) == [data |-> aligned, count |-> 1, match |-> ""]

\* one iteration of "for row in rows" after the alignment
FoldRow(v, groups, hdrs, aligned, pidx, sidx) ==
    LET g == FirstMatch(groups, aligned, pidx, sidx)
    IN  IF g = 0 THEN Append(groups, NewGroup(aligned))
        ELSE IF v = "simple" THEN [groups EXCEPT ![g] = BumpCount(@)]
        ELSE [groups EXCEPT ![g] =
                 BumpCount([@ EXCEPT !.data = MergeYears(hdrs, aligned, @)])]

(* ------------------------ soft match flagging ------------------------- *)

\* all_similar of the pair (a, b)
all_similar(a, b, indices) ==
    \A k \in 1..Len(indices) :
        LET x == a[indices[k].index]
            y == b[indices[k].index]
        IN  \/ x = <<>>
            \/ y = <<>>
            \/ AtLeastHalf(string_similarity(x, y))
            \/ clean_title(x) = clean_title(y)

\* required_shared = 2 if len(primary_indices) >= 3 else 1
required_shared(pidx) == IF Len(pidx) >= 3 THEN 2 ELSE 1

\* mutant: the pair is flagged on all_similar alone
FlagConditionNoFloor(a, b, pidx, sidx) == all_similar(a, b, pidx \o sidx)

\* score >= 0.5 and shared >= required_shared and all_similar
FlagCondition(a, b, pidx, sidx) ==
    /\ AtLeastHalf(get_dedup_match_score(a, b, pidx \o sidx))
    /\ get_shared_filled_fields(a, b, pidx \o sidx) >= required_shared(pidx)
    /\ all_similar(a, b, pidx \o sidx)

\* mutant: the flag is flipped instead of set once
SetSoftFlips(group) == [group EXCEPT !.match = IF @ = "" THEN "soft" ELSE ""]

\* if not a["match"]: a["match"] = "soft"
SetSoft(group) == [group EXCEPT !.match = IF @ = "" THEN "soft" ELSE @]

\* mutant: a pair is flagged only while both of its groups are unflagged
FlagPairFresh(groups, i, j, pidx, sidx) ==
    IF /\ FlagCondition(groups[i].data, groups[j].data, pidx, sidx)
       /\ groups[i].match = "" /\ groups[j].match = ""
    THEN [groups EXCEPT ![i] = SetSoft(@), ![j] = SetSoft(@)]
    ELSE groups

\* the body of the inner loop for the pair (i, j)
FlagPair(groups, i, j, pidx, sidx) ==
    IF FlagCondition(groups[i].data, groups[j].data, pidx, sidx)
    THEN [groups EXCEPT ![i] = SetSoft(@), ![j] = SetSoft(@)]
    ELSE groups

\* for i in range(len(deduped_rows)): for j in range(i + 1, len(deduped_rows))
RECURSIVE SoftLoop(_, _, _, _, _)
SoftLoop(groups, i, j, pidx, sidx) ==
    IF i > Len(groups) THEN groups
    ELSE IF j > Len(groups) THEN SoftLoop(groups, i + 1, i + 2, pidx, sidx)
    ELSE SoftLoop(FlagPair(groups, i, j, pidx, sidx), i, j + 1, pidx, sidx)

SoftMatchPass(groups, pidx, sidx) == SoftLoop(groups, 1, 2, pidx, sidx)

(* ------------------- exclusion, sort and emission --------------------- *)

\* ord(c)
CodePoint ==
    [c \in Alphabet |->
        IF \E k \in 1..26 : UpperChars[k] = c
            THEN 64 + (CHOOSE k \in 1..26 : UpperChars[k] = c)
        ELSE IF \E k \in 1..26 : LowerChars[k] = c
            THEN 96 + (CHOOSE k \in 1..26 : LowerChars[k] = c)
        ELSE IF \E k \in 1..10 : DigitChars[k] = c
            THEN 47 + (CHOOSE k \in 1..10 : DigitChars[k] = c)
        ELSE CASE c = "\t" -> 9  [] c = "\n" -> 10 [] c = "\r" -> 13
               [] c = " "  -> 32 [] c = "("  -> 40 [] c = ")"  -> 41
               [] c = "+"  -> 43 [] c = ","  -> 44 [] c = "-"  -> 45
               [] c = "."  -> 46 [] c = "_"  -> 95 [] c = "|"  -> 124]

\* a < b of two str: by code point at the first difference, a proper prefix
\* being smaller
StrLess(a, b) ==
    \E k \in 1..(Len(b)) :
        /\ \A m \in 1..(k - 1) : m <= Len(a) /\ a[m] = b[m]
        /\ k - 1 <= Len(a)
        /\ (k > Len(a) \/ CodePoint[a[k]] < CodePoint[b[k]])

\* sub in s
Contains(s, sub) ==
    \E k \in 0..(Len(s) - Len(sub)) : SubSeq(s, k + 1, k + Len(sub)) = sub

\* "".join(row)
RECURSIVE Join(_)
Join(row) == IF Len(row) = 0 THEN <<>> ELSE Head(row) \o Join(Tail(row))

\* rows = [row for row in data[1:] if "".join(row).strip() != ""]
KeptRow(row) == strip(Join(row)) # <<>>

RoutinePhrase == <<"r","o","u","t","i","n","e"," ","|">>
OpenPhrase    == <<"t","h","e"," ","o","p","e","n"," ","2","0","2","4">>
FxPhrase      == <<"f","x"," ","|">>

\* should_exclude(comment) and should_remove(comment)
should_exclude(comment) ==
    LET lc == lower(comment)
    IN  Contains(lc, RoutinePhrase) \/ Contains(lc, OpenPhrase) \/ Contains(lc, FxPhrase)

\* simple caller: headers.index("Title"), -1 (here 0) on ValueError
SimpleIndex(hdrs, name) == IF InSeq(name, hdrs) THEN IndexOf(hdrs, name) ELSE 0

\* complete caller: next((i for i, h in enumerate(headers) if h.lower() == name), -1)
CompleteIndex(hdrs, name) ==
    IF \E k \in 1..Len(hdrs) : lower(hdrs[k]) = lower(name)
    THEN CHOOSE k \in 1..Len(hdrs) :
            /\ lower(hdrs[k]) = lower(name)
            /\ \A m \in 1..(k - 1) : lower(hdrs[m]) # lower(name)
    ELSE 0

ColumnIndex(v, hdrs, name) ==
    IF v = "simple" THEN SimpleIndex(hdrs, name) ELSE CompleteIndex(hdrs, name)

\* key=lambda r: str(r["data"][title_index]) if title_index >= 0 else ""
SortKey(group, title_index) == IF title_index = 0 THEN <<>> ELSE group.data[title_index]

\* the comment the exclusion test is given
CommentOf(group, comment_index) ==
    IF comment_index = 0 THEN <<>> ELSE group.data[comment_index]

\* is lst ordered by the key (ties allowed)
OrderedByKey(lst, title_index) ==
    \A k \in 1..(Len(lst) - 1) :
        ~StrLess(SortKey(lst[k + 1], title_index), SortKey(lst[k], title_index))

\* the arrangements of lst: as a sequence of positions of lst
Arrangements(lst) ==
    {p \in [1..Len(lst) -> 1..Len(lst)] : \A a, b \in 1..Len(lst) : a # b => p[a] # p[b]}

\* mutant: a sort that orders by the key and leaves ties in any order
sorted_unstable(lst, title_index) ==
    {[k \in 1..Len(lst) |-> lst[p[k]]] : p \in
        {q \in Arrangements(lst) :
            OrderedByKey([k \in 1..Len(lst) |-> lst[q[k]]], title_index)}}

\* sorted(lst, key=...): the outcomes of the sort, one for Python's stable
\* sort: ordered by the key, ties in the order of lst
sorted(lst, title_index) ==
    {[k \in 1..Len(lst) |-> lst[p[k]]] : p \in
        {q \in Arrangements(lst) :
            /\ OrderedByKey([k \in 1..Len(lst) |-> lst[q[k]]], title_index)
            /\ \A a, b \in 1..Len(lst) :
                  (a < b /\ SortKey(lst[q[a]], title_index) = SortKey(lst[q[b]], title_index))
                      => q[a] < q[b]}}

White  == "#ffffff"
Yellow == "#fff3b0"

\* mutant: every cell holding "0" is written as ""
ClearZerosAnywhere(hdrs, data) ==
    [i \in 1..Len(data) |-> IF data[i] = <<"0">> THEN <<>> ELSE data[i]]

\* complete caller, add_rows: a year cell holding "0" is written as ""
ClearZeroYears(hdrs, data) ==
    [i \in 1..Len(data) |->
        IF /\ \E k \in 1..Len(hdrs) : IsYearHeader(hdrs[k]) /\ IndexOf(hdrs, hdrs[k]) = i
           /\ data[i] = <<"0">>
        THEN <<>> ELSE data[i]]

\* the header row written first
FinalHeader(v, hdrs) == IF v = "simple" THEN Append(hdrs, <<"C","o","u","n","t">>) ELSE hdrs

\* add_rows, one item: the row appended to final_rows
EmittedRow(v, hdrs, item) ==
    IF v = "simple" THEN Append(item.data, item.count)
    ELSE ClearZeroYears(hdrs, item.data)

\* add_rows, one item: the row appended to backgrounds
EmittedBackground(v, hdrs, item) ==
    [i \in 1..Len(FinalHeader(v, hdrs)) |->
        IF item.match = "soft" /\ i <= Len(hdrs) THEN Yellow ELSE White]

\* the items add_rows(soft_matches); add_rows(others) appends, in order, for
\* each outcome of the two sorts.  The simple caller sorts and then skips the
\* excluded items, the complete caller removes them before it sorts.
EmittedItems(v, hdrs, groups) ==
    LET title_index == ColumnIndex(v, hdrs, Title)
        comment_index == ColumnIndex(v, hdrs, Comment)
        HasCount(r) == r.count > 0
        IsSoft(r) == r.match = "soft"
        IsOther(r) == r.match # "soft"
        Kept(r) == ~should_exclude(CommentOf(r, comment_index))
        with_count == SelectSeq(groups, HasCount)
    IN  IF v = "simple"
        THEN {SelectSeq(soft_matches \o others, Kept) :
                 soft_matches \in sorted(SelectSeq(with_count, IsSoft), title_index),
                 others \in sorted(SelectSeq(with_count, IsOther), title_index)}
        ELSE {soft_matches \o others :
                 soft_matches \in sorted(SelectSeq(SelectSeq(with_count, IsSoft), Kept),
                                         title_index),
                 others \in sorted(SelectSeq(SelectSeq(with_count, IsOther), Kept),
                                   title_index)}

\* final_rows = [final_header] + the emitted rows
FinalRows(v, hdrs, items) ==
    <<FinalHeader(v, hdrs)>> \o [k \in 1..Len(items) |-> EmittedRow(v, hdrs, items[k])]

\* backgrounds = [white header] + the emitted backgrounds
Backgrounds(v, hdrs, items) ==
    <<[i \in 1..Len(FinalHeader(v, hdrs)) |-> White]>>
        \o [k \in 1..Len(items) |-> EmittedBackground(v, hdrs, items[k])]

\* "for row in rows" of the engine, run to its end over the given rows
RECURSIVE FoldRows(_, _, _, _, _, _)
FoldRows(v, hdrs, hmap, pidx, sidx, rows) ==
    IF Len(rows) = 0 THEN <<>>
    ELSE FoldRow(v, FoldRows(v, hdrs, hmap, pidx, sidx, SubSeq(rows, 1, Len(rows) - 1)),
                 hdrs, AlignRow(hdrs, hmap, rows[Len(rows)]), pidx, sidx)

\* the group each row of a run is folded into: at its turn, the first group
\* it matches, else the group appended for it
GroupOfEach(v, hdrs, hmap, pidx, sidx, rows) ==
    [k \in 1..Len(rows) |->
        LET before == FoldRows(v, hdrs, hmap, pidx, sidx, SubSeq(rows, 1, k - 1))
            g == FirstMatch(before, AlignRow(hdrs, hmap, rows[k]), pidx, sidx)
        IN  IF g = 0 THEN Len(before) + 1 ELSE g]

\* one whole run of a caller on a header and kept rows none of which raises:
\* the outcomes [final_rows, backgrounds]
RunOutcomes(v, header, rows) ==
    LET hdrs == HeadersOf(v, header)
        pidx == PrimaryIndices(v, header)
        sidx == SecondaryIndices(v, header)
        groups == SoftMatchPass(FoldRows(v, hdrs, HeaderMap(header), pidx, sidx, rows),
                                pidx, sidx)
    IN  {[final_rows |-> FinalRows(v, hdrs, items),
          backgrounds |-> Backgrounds(v, hdrs, items)] :
            items \in EmittedItems(v, hdrs, groups)}

(* ------------------------------ inputs -------------------------------- *)

MaxRows == 3

E   == <<>>
ab  == <<"a","b">>
AB  == <<"A","B">>
abc == <<"a","b","c">>
xy  == <<"x","y">>
three == <<"3">>
four  == <<"4">>
junk  == <<"x">>

lower_title == <<"t","i","t","l","e">>
Foo   == <<"F","o","o">>
Y2020 == <<"2","0","2","0">>

BlueMonday == <<"B","l","u","e"," ","M","o","n","d","a","y">>
BlueMondayRadioEdit ==
    BlueMonday \o <<" ","(","R","a","d","i","o"," ","E","d","i","t",")">>
NewOrder == <<"N","e","w"," ","O","r","d","e","r">>

\* the sheets fed to the engine: a header, the values each column may hold,
\* and the shortest row (a row shorter than the header is a ragged row)
Sheets ==
    { [header |-> <<Title, Artist>>,
       dom |-> <<{E, ab, AB}, {E, ab, xy}>>, minLen |-> 2],
      [header |-> <<lower_title, Artist>>,
       dom |-> <<{ab, xy}, {E, ab}>>, minLen |-> 2],
      [header |-> <<Comment, Genre>>,
       dom |-> <<{ab, xy}, {E, ab}>>, minLen |-> 2],
      [header |-> <<Title, Remix, Artist>>,
       dom |-> <<{ab, abc}, {E, ab}, {E, ab}>>, minLen |-> 3],
      [header |-> <<Title, Comment>>,
       dom |-> <<{ab, AB}, {E, ab, xy}>>, minLen |-> 1],
      [header |-> <<Artist, Foo, Title, Length>>,
       dom |-> <<{E, ab}, {xy}, {ab, AB}, {three, four}>>, minLen |-> 3],
      [header |-> <<Title, Y2020>>,
       dom |-> <<{ab, AB}, {E, three, junk}>>, minLen |-> 1],
      [header |-> desired_order,
       dom |-> <<{BlueMonday, BlueMondayRadioEdit}, {E}, {E, NewOrder},
                 {E}, {E}, {E}, {E}, {E}>>, minLen |-> 8] }

SheetOf(header) == CHOOSE sh \in Sheets : sh.header = header

\* the rows of length n over the first n columns' values
RECURSIVE RowsOfLen(_, _)
RowsOfLen(dom, n) ==
    IF n = 0 THEN {<<>>}
    ELSE {Append(r, c) : r \in RowsOfLen(dom, n - 1), c \in dom[n]}

RawRows(sh) == UNION {RowsOfLen(sh.dom, n) : n \in sh.minLen..Len(sh.header)}

\* the rows a sheet with this header may hold
RowsUnder == [h \in {sh.header : sh \in Sheets} |-> RawRows(SheetOf(h))]

(* ------------------------------ state --------------------------------- *)

VARIABLES
    variant,        \* "simple": deduplicate_rows_with_soft_match,
                    \* "complete": ..._complete_summary
    all_headers,    \* the sheet's header row
    headers,        \* the canonical header computed from all_headers
    header_map,     \* lower-cased sheet header -> column
    primary_indices,    \* [field, index] of the primary fields
    secondary_indices,  \* [field, index] of the secondary fields
    deduped_rows,   \* the groups: [data, count, match]
    folded,         \* history: per processed row, [row, aligned, group]
    pc,             \* "rows": in the row loop; "returned"; "raised": IndexError;
                    \* "rerun": the soft match pass was run again;
                    \* "written": the caller wrote the sheet; "pairs": the
                    \* pairwise comparisons are being made one by one
    final_rows,     \* the rows the caller writes to the sheet, header first
    backgrounds,    \* the cell colours the caller applies, row by row
    replayed,       \* [final_rows, backgrounds] of a second run on the same input
    pending,        \* the pairs (i, j) of groups still to be compared
    call,           \* the last call of a helper: [fn, args, result]
    folder_locks,   \* helpers._folder_locks: key -> time.time() * 1000 at locking
    clock,          \* time.time() * 1000
    drive,          \* the Drive: its files and the contents of its sheets
    runs,           \* the runs under way: position and locals of each
    log             \* the calls made so far, with what they returned

vars == <<variant, all_headers, headers, header_map, primary_indices, secondary_indices,
          deduped_rows, folded, pc, final_rows, backgrounds, replayed, pending, call,
          folder_locks, clock, drive, runs, log>>

\* the locks, the Drive and the runs that use them
world == <<folder_locks, clock, drive, runs, log>>

\* the world while only the engine and its callers are looked at
NoWorld ==
    /\ folder_locks = <<>>
    /\ clock = 0
    /\ drive = <<>>
    /\ runs = <<>>
    /\ log = <<>>

\* what the caller produces
written == <<final_rows, backgrounds, replayed>>

setup == <<variant, all_headers, headers, header_map, primary_indices, secondary_indices>>

Init ==
    /\ variant \in {"simple", "complete"}
    /\ all_headers \in {sh.header : sh \in Sheets}
    /\ headers = HeadersOf(variant, all_headers)
    /\ header_map = HeaderMap(all_headers)
    /\ primary_indices = PrimaryIndices(variant, all_headers)
    /\ secondary_indices = SecondaryIndices(variant, all_headers)
    /\ deduped_rows = <<>>
    /\ folded = <<>>
    /\ pc = "rows"
    /\ final_rows = <<>>
    /\ backgrounds = <<>>
    /\ replayed = <<>>
    /\ pending = {}
    /\ call = [fn |-> "none"]
    /\ NoWorld

\* the group a row was folded into: the first match, else the new last group
FoldedInto(groups, aligned) ==
    LET g == FirstMatch(groups, aligned, primary_indices, secondary_indices)
    IN  IF g = 0 THEN Len(groups) + 1 ELSE g

Fold(row) ==
    LET aligned == AlignRow(headers, header_map, row)
    IN  /\ deduped_rows' = FoldRow(variant, deduped_rows, headers, aligned,
                                primary_indices, secondary_indices)
        /\ folded' = Append(folded, [row |-> row, aligned |-> aligned,
                                     group |-> FoldedInto(deduped_rows, aligned)])

\* simple variant, one iteration of "for row in rows"
ProcessRow ==
    /\ pc = "rows"
    /\ variant = "simple"
    /\ Len(folded) < MaxRows
    /\ \E row \in RowsUnder[all_headers] :
          /\ ~FirstAlignRaises(headers, header_map, row)
          /\ Fold(row)
    /\ UNCHANGED <<setup, pc, written, pending, call, world>>

\* simple variant: the first alignment of a ragged row raises IndexError,
\* which leaves the function
ProcessRowRaises ==
    /\ pc = "rows"
    /\ variant = "simple"
    /\ Len(folded) < MaxRows
    /\ \E row \in RowsUnder[all_headers] :
          FirstAlignRaises(headers, header_map, row)
    /\ pc' = "raised"
    /\ UNCHANGED <<setup, deduped_rows, folded, written, pending, call, world>>

\* complete variant, one iteration of "for row in rows"
ProcessRowComplete ==
    /\ pc = "rows"
    /\ variant = "complete"
    /\ Len(folded) < MaxRows
    /\ \E row \in RowsUnder[all_headers] : Fold(row)
    /\ UNCHANGED <<setup, pc, written, pending, call, world>>

\* the rows are exhausted: the soft match pass runs and the function returns
SoftMatchFlagging ==
    /\ pc = "rows"
    /\ deduped_rows' = SoftMatchPass(deduped_rows, primary_indices, secondary_indices)
    /\ pc' = "returned"
    /\ UNCHANGED <<setup, folded, written, pending, call, world>>

\* the soft match pass run again over the annotated groups
RerunSoftMatch ==
    /\ pc \in {"returned", "rerun"}
    /\ deduped_rows' = SoftMatchPass(deduped_rows, primary_indices, secondary_indices)
    /\ pc' = "rerun"
    /\ UNCHANGED <<setup, folded, written, pending, call, world>>

Next ==
    \/ ProcessRow
    \/ ProcessRowRaises
    \/ ProcessRowComplete
    \/ SoftMatchFlagging
    \/ RerunSoftMatch

Spec == Init /\ [][Next]_vars

(* --------- deduplicate_summaries, deduplicate_complete_summary -------- *)

zero == <<"0">>
fx_cell == <<"f","x"," ","|">>
fx == <<"f","x">>
FX_cell == <<"F","X"," ","|">>
RoutineAdvanced == <<"R","o","u","t","i","n","e"," ","|"," ","A">>
TheOpen == <<"T","h","e"," ","O","p","e","n"," ","2","0","2","4">>
lower_comment == <<"c","o","m","m","e","n","t">>

\* the first sheets of the summary files the callers read
SummarySheets ==
    { [header |-> <<Title, Comment>>,
       dom |-> <<{ab, abc, xy}, {ab, AB}>>, minLen |-> 2],
      [header |-> <<Comment, Title>>,
       dom |-> <<{E, fx_cell, FX_cell, fx, ab}, {ab}>>, minLen |-> 2],
      [header |-> <<Title, lower_comment>>,
       dom |-> <<{E, ab}, {E, RoutineAdvanced}>>, minLen |-> 1],
      [header |-> <<lower_title, Artist>>,
       dom |-> <<{ab, xy}, {E, ab}>>, minLen |-> 2],
      [header |-> <<Comment, Genre>>,
       dom |-> <<{TheOpen, ab}, {E, ab}>>, minLen |-> 2],
      [header |-> <<Title, Y2020>>,
       dom |-> <<{ab}, {E, three, four, zero, junk}>>, minLen |-> 2],
      [header |-> <<Title, BPM, Y2020>>,
       dom |-> <<{ab}, {E, zero}, {E, zero, three}>>, minLen |-> 3] }

SummarySheetOf(header) == CHOOSE sh \in SummarySheets : sh.header = header

\* data[1:] of a sheet with this header, and the rows the caller keeps
SummaryRowsUnder ==
    [h \in {sh.header : sh \in SummarySheets} |->
        {row \in RawRows(SummarySheetOf(h)) : KeptRow(row)}]

SummaryInit ==
    /\ variant \in {"simple", "complete"}
    /\ all_headers \in {sh.header : sh \in SummarySheets}
    /\ headers = HeadersOf(variant, all_headers)
    /\ header_map = HeaderMap(all_headers)
    /\ primary_indices = PrimaryIndices(variant, all_headers)
    /\ secondary_indices = SecondaryIndices(variant, all_headers)
    /\ deduped_rows = <<>>
    /\ folded = <<>>
    /\ pc = "rows"
    /\ final_rows = <<>>
    /\ backgrounds = <<>>
    /\ replayed = <<>>
    /\ pending = {}
    /\ call = [fn |-> "none"]
    /\ NoWorld

\* deduplicate_summaries: one kept row goes through the engine's row loop
SummaryRow ==
    /\ pc = "rows"
    /\ variant = "simple"
    /\ Len(folded) < MaxRows
    /\ \E row \in SummaryRowsUnder[all_headers] :
          /\ ~FirstAlignRaises(headers, header_map, row)
          /\ Fold(row)
    /\ UNCHANGED <<setup, pc, written, pending, call, world>>

\* deduplicate_summaries: the engine raises IndexError on a ragged row; the
\* caller's "except Exception" logs it and the sheet is left as it was
SummaryRowRaises ==
    /\ pc = "rows"
    /\ variant = "simple"
    /\ Len(folded) < MaxRows
    /\ \E row \in SummaryRowsUnder[all_headers] :
          FirstAlignRaises(headers, header_map, row)
    /\ pc' = "raised"
    /\ UNCHANGED <<setup, deduped_rows, folded, written, pending, call, world>>

\* deduplicate_complete_summary: one kept row goes through the row loop
CompleteSummaryRow ==
    /\ pc = "rows"
    /\ variant = "complete"
    /\ Len(folded) < MaxRows
    /\ \E row \in SummaryRowsUnder[all_headers] : Fold(row)
    /\ UNCHANGED <<setup, pc, written, pending, call, world>>

\* the caller filters, sorts and writes the rows and their backgrounds
WriteSheet ==
    /\ pc = "returned"
    /\ \E items \in EmittedItems(variant, headers, deduped_rows) :
          /\ final_rows' = FinalRows(variant, headers, items)
          /\ backgrounds' = Backgrounds(variant, headers, items)
    /\ pc' = "written"
    /\ UNCHANGED <<setup, deduped_rows, folded, replayed, pending, call, world>>

\* the caller is run a second time on the same header and rows
RunAgain ==
    /\ pc = "written"
    /\ replayed' \in RunOutcomes(variant, all_headers,
                                 [k \in 1..Len(folded) |-> folded[k].row])
    /\ pc' = "replayed"
    /\ UNCHANGED <<setup, deduped_rows, folded, final_rows, backgrounds, pending, call, world>>

SummaryNext ==
    \/ SummaryRow
    \/ SummaryRowRaises
    \/ CompleteSummaryRow
    \/ SoftMatchFlagging
    \/ WriteSheet
    \/ RunAgain

SummarySpec == SummaryInit /\ [][SummaryNext]_vars

(* ------------- the pairwise comparisons, taken one by one ------------- *)

\* the sheets whose groups are compared pair by pair
PairHeaders == {<<Title, Comment>>, <<Comment, Title>>}

PairInit == SummaryInit /\ all_headers \in PairHeaders

\* the pairs the two loops of the soft match pass go through
AllPairs(groups) == {p \in (1..Len(groups)) \X (1..Len(groups)) : p[1] < p[2]}

\* the row loop is over: the pairs of the soft match pass are laid out
BeginPairs ==
    /\ pc = "rows"
    /\ pending' = AllPairs(deduped_rows)
    /\ pc' = IF AllPairs(deduped_rows) = {} THEN "returned" ELSE "pairs"
    /\ UNCHANGED <<setup, deduped_rows, folded, written, call, world>>

\* the body of the inner loop is run for one of the pairs left, whichever
ComparePair ==
    /\ pc = "pairs"
    /\ \E p \in pending :
          /\ deduped_rows' = FlagPair(deduped_rows, p[1], p[2],
                                      primary_indices, secondary_indices)
          /\ pending' = pending \ {p}
          /\ pc' = IF pending = {p} THEN "returned" ELSE "pairs"
    /\ UNCHANGED <<setup, folded, written, call, world>>

PairNext ==
    \/ SummaryRow
    \/ CompleteSummaryRow
    \/ BeginPairs
    \/ ComparePair

PairSpec == PairInit /\ [][PairNext]_vars

(* ------------------- the helpers, called on their own ----------------- *)

ba == <<"b","a">>
Song == <<"S","o","n","g">>
SongRadioEdit == Song \o <<" ","(","R","a","d","i","o"," ","E","d","i","t",")">>
song_lower == <<"s","o","n","g">>
HelloPadded == <<" ","H","e","l","l","o"," ">>

\* the values of the first and of the second cell of the rows passed in
FirstCells  == {E, ab, abc, ba, Song, SongRadioEdit, song_lower, HelloPadded}
SecondCells == {E, ab}

\* the index lists passed in: none, Title, Title and Artist
IndexLists ==
    { <<>>,
      <<[field |-> Title, index |-> 1]>>,
      <<[field |-> Title, index |-> 1], [field |-> Artist, index |-> 2]>> }

CallInit ==
    /\ variant = "simple"
    /\ all_headers = <<Title, Artist>>
    /\ headers = HeadersOf(variant, all_headers)
    /\ header_map = HeaderMap(all_headers)
    /\ primary_indices = PrimaryIndices(variant, all_headers)
    /\ secondary_indices = SecondaryIndices(variant, all_headers)
    /\ deduped_rows = <<>>
    /\ folded = <<>>
    /\ pc = "call"
    /\ final_rows = <<>>
    /\ backgrounds = <<>>
    /\ replayed = <<>>
    /\ pending = {}
    /\ call \in [fn : {"none"},
                 data1 : FirstCells \X SecondCells,
                 data2 : FirstCells \X SecondCells,
                 indices : IndexLists]
    /\ NoWorld

\* fn is called on the arguments drawn and its result kept
Called(fn, result) ==
    /\ pc = "call"
    /\ call.fn = "none"
    /\ call' = [fn |-> fn, data1 |-> call.data1, data2 |-> call.data2,
                indices |-> call.indices, result |-> result]
    /\ UNCHANGED <<setup, deduped_rows, folded, pc, written, pending, world>>

CallGetDedupMatchScore ==
    Called("get_dedup_match_score",
           get_dedup_match_score(call.data1, call.data2, call.indices))

CallStringSimilarity ==
    Called("string_similarity", string_similarity(call.data1[1], call.data2[1]))

\* clean_title is called on each of the two titles
CallCleanTitle ==
    Called("clean_title", <<clean_title(call.data1[1]), clean_title(call.data2[1])>>)

CallHelpersGetDedupMatchScore ==
    Called("helpers.get_dedup_match_score",
           helpers_get_dedup_match_score(call.data1, call.data2, call.indices))

CallHelpersStringSimilarity ==
    Called("helpers.string_similarity",
           helpers_string_similarity(call.data1[1], call.data2[1]))

CallHelpersCleanTitle ==
    Called("helpers.clean_title",
           <<helpers_clean_title(call.data1[1]), helpers_clean_title(call.data2[1])>>)

CallNext ==
    \/ CallGetDedupMatchScore
    \/ CallStringSimilarity
    \/ CallCleanTitle
    \/ CallHelpersGetDedupMatchScore
    \/ CallHelpersStringSimilarity
    \/ CallHelpersCleanTitle

CallSpec == CallInit /\ [][CallNext]_vars

(* ------------------ the canonical header, on its own ------------------ *)

MaxColumns == 3

Y1999 == <<"1","9","9","9">>
Y2020Newline == <<"2","0","2","0","\n">>

\* the names a header row is made of
HeaderNames == {Title, lower_title, Artist, Length, Foo, Y2020, Y1999, Y2020Newline}

RECURSIVE HeaderRowsOfLen(_)
HeaderRowsOfLen(n) ==
    IF n = 0 THEN {<<>>}
    ELSE {Append(r, h) : r \in HeaderRowsOfLen(n - 1), h \in HeaderNames}

\* the header rows the engine is given
HeaderRows == UNION {HeaderRowsOfLen(n) : n \in 1..MaxColumns}

HeaderInit ==
    /\ variant \in {"simple", "complete"}
    /\ all_headers \in HeaderRows
    /\ headers = <<>>
    /\ header_map = <<>>
    /\ primary_indices = <<>>
    /\ secondary_indices = <<>>
    /\ deduped_rows = <<>>
    /\ folded = <<>>
    /\ pc = "entered"
    /\ final_rows = <<>>
    /\ backgrounds = <<>>
    /\ replayed = <<>>
    /\ pending = {}
    /\ call = [fn |-> "none"]
    /\ NoWorld

\* deduplicate_rows_with_soft_match, up to the row loop
ProjectHeaders ==
    /\ pc = "entered"
    /\ variant = "simple"
    /\ headers' = SimpleHeaders(all_headers)
    /\ primary_indices' = PrimaryIndices(variant, all_headers)
    /\ secondary_indices' = SecondaryIndices(variant, all_headers)
    /\ pc' = "projected"
    /\ UNCHANGED <<variant, all_headers, header_map, deduped_rows, folded, written,
                   pending, call, world>>

\* deduplicate_rows_with_soft_match_complete_summary, up to the row loop
ProjectHeadersComplete ==
    /\ pc = "entered"
    /\ variant = "complete"
    /\ headers' = CompleteHeaders(all_headers)
    /\ primary_indices' = PrimaryIndices(variant, all_headers)
    /\ secondary_indices' = SecondaryIndices(variant, all_headers)
    /\ pc' = "projected"
    /\ UNCHANGED <<variant, all_headers, header_map, deduped_rows, folded, written,
                   pending, call, world>>

HeaderNext ==
    \/ ProjectHeaders
    \/ ProjectHeadersComplete

HeaderSpec == HeaderInit /\ [][HeaderNext]_vars

(* -------------------- helpers.py, the folder lock --------------------- *)

\* the engine and its callers while only the locks and the Drive are looked at
NoEngine ==
    /\ variant = "simple"
    /\ all_headers = <<>>
    /\ headers = <<>>
    /\ header_map = <<>>
    /\ primary_indices = <<>>
    /\ secondary_indices = <<>>
    /\ deduped_rows = <<>>
    /\ folded = <<>>
    /\ final_rows = <<>>
    /\ backgrounds = <<>>
    /\ replayed = <<>>
    /\ pending = {}
    /\ call = [fn |-> "none"]

engine == <<setup, deduped_rows, folded, written, pending, call>>

MaxCalls == 3
MaxMinutes == 8

Minute == 60 * 1000

\* expires_in = 7 * 60 * 1000
expires_in == 7 * 60 * 1000

Y2025 == <<"2","0","2","5">>
SummaryName == <<"S","u","m","m","a","r","y">>

\* the folder names the lock is asked for
FolderNames == {Y2025, SummaryName}

\* mutant: one key for every folder
LockKeyOfAll(folder_name) == <<"L","O","C","K","_">>

\* key = f"LOCK_{folder_name}"
LockKey(folder_name) == <<"L","O","C","K","_">> \o folder_name

\* _folder_locks.get(key): None is 0 here, and a time of 0 is as falsy
DictGet(dict, key) == IF key \in DOMAIN dict THEN dict[key] ELSE 0

\* _folder_locks[key] = now
DictSet(dict, key, value) ==
    [k \in DOMAIN dict \cup {key} |-> IF k = key THEN value ELSE dict[k]]

\* _folder_locks.pop(key, None)
DictPop(dict, key) == [k \in DOMAIN dict \ {key} |-> dict[k]]

\* helpers.try_lock_folder: the value returned
helpers_try_lock_folder(locks, now, folder_name) ==
    LET existing == DictGet(locks, LockKey(folder_name))
    IN  ~(existing # 0 /\ now - existing < expires_in)

\* helpers.try_lock_folder: _folder_locks afterwards
helpers_locks_after_try(locks, now, folder_name) ==
    IF helpers_try_lock_folder(locks, now, folder_name)
    THEN DictSet(locks, LockKey(folder_name), now)
    ELSE locks

\* helpers.release_folder_lock: _folder_locks afterwards
helpers_release_folder_lock(locks, folder_name) == DictPop(locks, LockKey(folder_name))

LockInit ==
    /\ NoEngine
    /\ pc = "locks"
    /\ folder_locks = <<>>
    /\ clock = Minute
    /\ drive = <<>>
    /\ runs = <<>>
    /\ log = <<>>

\* a call of helpers.try_lock_folder
TryLockFolder ==
    /\ Len(log) < MaxCalls
    /\ \E name \in FolderNames :
          /\ folder_locks' = helpers_locks_after_try(folder_locks, clock, name)
          /\ log' = Append(log, [fn |-> "try_lock_folder", name |-> name, at |-> clock,
                                  result |-> helpers_try_lock_folder(folder_locks, clock, name)])
    /\ UNCHANGED <<engine, pc, clock, drive, runs>>

\* a call of helpers.release_folder_lock
ReleaseFolderLock ==
    /\ Len(log) < MaxCalls
    /\ \E name \in FolderNames :
          /\ folder_locks' = helpers_release_folder_lock(folder_locks, name)
          /\ log' = Append(log, [fn |-> "release_folder_lock", name |-> name, at |-> clock,
                                  result |-> TRUE])
    /\ UNCHANGED <<engine, pc, clock, drive, runs>>

\* time passes between two calls
Tick ==
    /\ \E d \in {3 * Minute, 4 * Minute} :
          /\ clock + d <= (1 + MaxMinutes) * Minute
          /\ clock' = clock + d
    /\ UNCHANGED <<engine, pc, folder_locks, drive, runs, log>>

LockNext ==
    \/ TryLockFolder
    \/ ReleaseFolderLock
    \/ Tick

LockSpec == LockInit /\ [][LockNext]_vars

(* ------------- generate_summaries.py, the Drive-file lock ------------- *)

\* LOCK_FILE_NAME = ".lock_summary_folder"
LOCK_FILE_NAME == <<".","l","o","c","k","_","s","u","m","m","a","r","y","_",
                    "f","o","l","d","e","r">>

Summary2025 == Y2025 \o <<" ">> \o SummaryName

\* the files a folder may hold before any call
FirstFiles ==
    { [id |-> 1, name |-> LOCK_FILE_NAME, parent |-> SummaryName],
      [id |-> 2, name |-> LOCK_FILE_NAME, parent |-> SummaryName],
      [id |-> 3, name |-> Summary2025, parent |-> SummaryName] }

FirstFreeId == 1 + Cardinality(FirstFiles)

\* get_or_create_subfolder(DJ_SETS, folder_name): the Drive afterwards; the
\* folder is known by its name
get_or_create_subfolder(d, folder_name) == [d EXCEPT !.folders = @ \cup {folder_name}]

\* mutant: the query without its name clause
ListAnyFile(d, folder_name) == {f.id : f \in {g \in d.files : g.parent = folder_name}}

\* files().list(q="'<folder>' in parents and name='.lock_summary_folder' and
\* trashed=false"): the ids found
ListLockFiles(d, folder_name) ==
    {f.id : f \in {g \in d.files : g.parent = folder_name /\ g.name = LOCK_FILE_NAME}}

\* files().create(body=file_metadata): the Drive afterwards
CreateLockFile(d, folder_name) ==
    [d EXCEPT !.files = @ \cup {[id |-> d.next_id, name |-> LOCK_FILE_NAME,
                                  parent |-> folder_name]},
              !.next_id = @ + 1]

\* files().delete(fileId=id) that succeeds: the Drive afterwards
DeleteFile(d, id) == [d EXCEPT !.files = {f \in @ : f.id # id}]

Idle == [pc |-> "idle", name |-> <<>>, found |-> {}, left |-> {}, requested |-> {},
         calls |-> 0]

DriveInit(run_ids, first_files) ==
    /\ NoEngine
    /\ pc = "drive"
    /\ folder_locks = <<>>
    /\ clock = 0
    /\ \E files \in SUBSET first_files, folders \in SUBSET FolderNames :
          /\ {f.parent : f \in files} \subseteq folders
          /\ drive = [folders |-> folders, files |-> files, next_id |-> FirstFreeId]
    /\ runs = [r \in run_ids |-> Idle]
    /\ log = <<>>

Returns(r, fn, result, created) ==
    log' = Append(log, [fn |-> fn, run |-> r, name |-> runs[r].name, result |-> result,
                        found |-> runs[r].found, requested |-> runs[r].requested,
                        created |-> created])

\* try_lock_folder is entered: summary_folder_id = get_or_create_subfolder(...)
EnterTryLock ==
    \E r \in DOMAIN runs : \E name \in FolderNames :
        /\ runs[r].pc = "idle"
        /\ runs[r].calls < MaxCalls
        /\ drive' = get_or_create_subfolder(drive, name)
        /\ runs' = [runs EXCEPT ![r] = [Idle EXCEPT !.pc = "try", !.name = name,
                                                      !.calls = runs[r].calls + 1]]
        /\ UNCHANGED <<engine, pc, folder_locks, clock, log>>

\* try_lock_folder: results = drive_service.files().list(...).execute()
TryLockList ==
    \E r \in DOMAIN runs :
        /\ runs[r].pc = "try"
        /\ runs' = [runs EXCEPT ![r].pc = "try_listed",
                                 ![r].found = ListLockFiles(drive, runs[r].name)]
        /\ UNCHANGED <<engine, pc, folder_locks, clock, drive, log>>

\* try_lock_folder: if files: return False
TryLockRefused ==
    \E r \in DOMAIN runs :
        /\ runs[r].pc = "try_listed"
        /\ runs[r].found # {}
        /\ Returns(r, "try_lock_folder", FALSE, {})
        /\ runs' = [runs EXCEPT ![r].pc = "idle"]
        /\ UNCHANGED <<engine, pc, folder_locks, clock, drive>>

\* try_lock_folder: the lock file is created; return True
TryLockCreate ==
    \E r \in DOMAIN runs :
        /\ runs[r].pc = "try_listed"
        /\ runs[r].found = {}
        /\ drive' = CreateLockFile(drive, runs[r].name)
        /\ Returns(r, "try_lock_folder", TRUE, {drive.next_id})
        /\ runs' = [runs EXCEPT ![r].pc = "idle"]
        /\ UNCHANGED <<engine, pc, folder_locks, clock>>

\* release_folder_lock is entered: get_or_create_subfolder(...)
EnterRelease ==
    \E r \in DOMAIN runs : \E name \in FolderNames :
        /\ runs[r].pc = "idle"
        /\ runs[r].calls < MaxCalls
        /\ drive' = get_or_create_subfolder(drive, name)
        /\ runs' = [runs EXCEPT ![r] = [Idle EXCEPT !.pc = "release", !.name = name,
                                                      !.calls = runs[r].calls + 1]]
        /\ UNCHANGED <<engine, pc, folder_locks, clock, log>>

\* release_folder_lock: results = drive_service.files().list(...).execute()
ReleaseList ==
    \E r \in DOMAIN runs :
        /\ runs[r].pc = "release"
        /\ runs' = [runs EXCEPT ![r].pc = "release_listed",
                                 ![r].found = ListLockFiles(drive, runs[r].name),
                                 ![r].left = ListLockFiles(drive, runs[r].name)]
        /\ UNCHANGED <<engine, pc, folder_locks, clock, drive, log>>

\* release_folder_lock, one iteration of "for f in files": the deletion succeeds
ReleaseDelete ==
    \E r \in DOMAIN runs : \E id \in runs[r].left :
        /\ runs[r].pc = "release_listed"
        /\ \E f \in drive.files : f.id = id
        /\ drive' = DeleteFile(drive, id)
        /\ runs' = [runs EXCEPT ![r].left = @ \ {id}, ![r].requested = @ \cup {id}]
        /\ UNCHANGED <<engine, pc, folder_locks, clock, log>>

\* release_folder_lock, one iteration: the deletion fails with HttpError,
\* which is logged
ReleaseDeleteFails ==
    \E r \in DOMAIN runs : \E id \in runs[r].left :
        /\ runs[r].pc = "release_listed"
        /\ runs' = [runs EXCEPT ![r].left = @ \ {id}, ![r].requested = @ \cup {id}]
        /\ UNCHANGED <<engine, pc, folder_locks, clock, drive, log>>

\* release_folder_lock: the loop is over
ReleaseReturn ==
    \E r \in DOMAIN runs :
        /\ runs[r].pc = "release_listed"
        /\ runs[r].left = {}
        /\ Returns(r, "release_folder_lock", TRUE, {})
        /\ runs' = [runs EXCEPT ![r].pc = "idle"]
        /\ UNCHANGED <<engine, pc, folder_locks, clock, drive>>

\* one run calls the two functions one after the other
DriveLockInit == DriveInit({1}, FirstFiles)

DriveLockNext ==
    \/ EnterTryLock
    \/ TryLockList
    \/ TryLockRefused
    \/ TryLockCreate
    \/ EnterRelease
    \/ ReleaseList
    \/ ReleaseDelete
    \/ ReleaseDeleteFails
    \/ ReleaseReturn

DriveLockSpec == DriveLockInit /\ [][DriveLockNext]_vars

(* ------------ two runs ask for the Drive-file lock at once ------------ *)

\* the folder holds no lock file, or one, and a file that is no lock
RaceFiles == {f \in FirstFiles : f.id # 2}

RaceInit == DriveInit({1, 2}, RaceFiles)

RaceNext ==
    \/ EnterTryLock
    \/ TryLockList
    \/ TryLockRefused
    \/ TryLockCreate

RaceSpec == RaceInit /\ [][RaceNext]_vars

(* -------------------- generate_next_missing_summary ------------------- *)

FAILED_set == <<"F","A","I","L","E","D","_","s","e","t">>
set_sheet  == <<"s","e","t">>
Cleaned    == <<"_","C","l","e","a","n","e","d">>
FAILED     == <<"F","A","I","L","E","D","_">>
SummarySuffix == <<" ">> \o SummaryName

\* the files of the year folder and of the Summary folder before the runs
YearFiles ==
    { [id |-> 1, name |-> Summary2025, parent |-> SummaryName],
      [id |-> 2, name |-> FAILED_set, parent |-> Y2025],
      [id |-> 3, name |-> LOCK_FILE_NAME, parent |-> Y2025],
      [id |-> 4, name |-> set_sheet, parent |-> Y2025] }

\* try_lock_folder run from its first line to its return: the value returned
try_lock_folder(d, folder_name) ==
    ListLockFiles(get_or_create_subfolder(d, folder_name), folder_name) = {}

\* try_lock_folder: the Drive afterwards
DriveAfterTryLock(d, folder_name) ==
    IF try_lock_folder(d, folder_name)
    THEN CreateLockFile(get_or_create_subfolder(d, folder_name), folder_name)
    ELSE get_or_create_subfolder(d, folder_name)

\* release_folder_lock run from its first line to its return: the Drives it
\* may leave, one for each set of deletions that succeed
release_folder_lock(d, folder_name) ==
    {[get_or_create_subfolder(d, folder_name) EXCEPT
        !.files = {f \in @ : f.id \notin deleted}] :
            deleted \in SUBSET ListLockFiles(d, folder_name)}

\* get_files_in_folder(drive_service, summary_folder["id"], name_contains=summary_name)
existing_summaries(d, year) ==
    {f \in d.files : f.parent = SummaryName /\ Contains(f.name, year \o SummarySuffix)}

\* get_files_in_folder(drive_service, folder["id"], mime_type=spreadsheet): the
\* lock file is no spreadsheet
spreadsheets(d, year) == {f \in d.files : f.parent = year /\ f.name # LOCK_FILE_NAME}

\* any(f["name"].startswith("FAILED_") or "_Cleaned" in f["name"] for f in files)
unready(d, year) ==
    \E f \in spreadsheets(d, year) :
        \/ Len(f.name) >= Len(FAILED) /\ SubSeq(f.name, 1, Len(FAILED)) = FAILED
        \/ Contains(f.name, Cleaned)

Waiting == [pc |-> "idle", left |-> {}, calls |-> 0]

NextSummaryInit ==
    /\ NoEngine
    /\ pc = "next_summary"
    /\ folder_locks = <<>>
    /\ clock = 0
    /\ \E files \in SUBSET YearFiles, folders \in SUBSET {Y2025, SummaryName} :
          /\ {f.parent : f \in files} \subseteq folders
          /\ drive = [folders |-> folders, files |-> files,
                       next_id |-> 1 + Cardinality(YearFiles)]
    /\ runs = [r \in {1} |-> Waiting]
    /\ log = <<>>

RunReturns(acquired, result) ==
    log' = Append(log, [fn |-> "generate_next_missing_summary",
                        acquired |-> acquired, result |-> result])

\* the run finds the Summary folder locked and returns
RunRefused ==
    /\ runs[1].pc = "idle"
    /\ runs[1].calls < MaxCalls
    /\ ~try_lock_folder(drive, SummaryName)
    /\ drive' = DriveAfterTryLock(drive, SummaryName)
    /\ runs' = [runs EXCEPT ![1].calls = @ + 1]
    /\ RunReturns(FALSE, "locked")
    /\ UNCHANGED <<engine, pc, folder_locks, clock>>

\* the run takes the Summary lock and lists the folders of DJ_SETS
RunBegins ==
    /\ runs[1].pc = "idle"
    /\ runs[1].calls < MaxCalls
    /\ try_lock_folder(drive, SummaryName)
    /\ drive' = DriveAfterTryLock(drive, SummaryName)
    /\ runs' = [runs EXCEPT ![1].calls = @ + 1, ![1].pc = "loop",
                             ![1].left = drive'.folders]
    /\ UNCHANGED <<engine, pc, folder_locks, clock, log>>

\* one iteration of "for folder in year_folders" that ends in a continue:
\* the Summary folder itself, a year with its summary, a year with unready
\* files, or a year whose lock is not to be had
SkipFolder ==
    \E year \in runs[1].left :
        /\ runs[1].pc = "loop"
        /\ \/ /\ \/ lower(year) = lower(SummaryName)
                   \/ existing_summaries(drive, year) # {}
                   \/ unready(drive, year)
                /\ drive' = drive
             \/ /\ lower(year) # lower(SummaryName)
                /\ existing_summaries(drive, year) = {}
                /\ ~unready(drive, year)
                /\ ~try_lock_folder(drive, year)
                /\ drive' = DriveAfterTryLock(drive, year)
        /\ runs' = [runs EXCEPT ![1].left = @ \ {year}]
        /\ UNCHANGED <<engine, pc, folder_locks, clock, log>>

\* the Drive after generate_summary_for_folder: nothing new when the folder
\* has no valid data, else the summary, moved to the Summary folder
generate_summary_for_folder(d, year) ==
    {d, [d EXCEPT !.files = @ \cup {[id |-> d.next_id, name |-> year \o SummarySuffix,
                                      parent |-> SummaryName]},
                  !.next_id = @ + 1]}

\* one iteration that takes the year lock: the summary is generated, or
\* generate_summary_for_folder raises; the finally clause releases both
\* locks, then the run is over
GenerateForFolder ==
    \E year \in runs[1].left : \E raised \in BOOLEAN :
        /\ runs[1].pc = "loop"
        /\ lower(year) # lower(SummaryName)
        /\ existing_summaries(drive, year) = {}
        /\ ~unready(drive, year)
        /\ try_lock_folder(drive, year)
        /\ \E generated \in IF raised THEN {DriveAfterTryLock(drive, year)}
                              ELSE generate_summary_for_folder(
                                       DriveAfterTryLock(drive, year), year) :
              \E year_released \in release_folder_lock(generated, year) :
                  drive' \in release_folder_lock(year_released, SummaryName)
        /\ runs' = [runs EXCEPT ![1].pc = "idle", ![1].left = {}]
        /\ RunReturns(TRUE, IF raised THEN "raised" ELSE "generated")
        /\ UNCHANGED <<engine, pc, folder_locks, clock>>

\* the loop is over without a summary generated; the run returns
RunEnds ==
    /\ runs[1].pc = "loop"
    /\ runs[1].left = {}
    /\ runs' = [runs EXCEPT ![1].pc = "idle"]
    /\ RunReturns(TRUE, "nothing")
    /\ UNCHANGED <<engine, pc, folder_locks, clock, drive>>

NextSummaryNext ==
    \/ RunRefused
    \/ RunBegins
    \/ SkipFolder
    \/ GenerateForFolder
    \/ RunEnds

NextSummarySpec == NextSummaryInit /\ [][NextSummaryNext]_vars

(* ------------- deduplicate_summaries, file after file ----------------- *)

PendingPrefix == <<"_","p","e","n","d","i","n","g","_">>
Pending2025 == PendingPrefix \o Y2025 \o SummarySuffix
Pending2020 == PendingPrefix \o Y2020 \o SummarySuffix

\* re.match(r"^_pending_(\d{4}) Summary$", name)
IsPendingName(name) ==
    LET core == IF Len(name) > 0 /\ name[Len(name)] = "\n"
                THEN SubSeq(name, 1, Len(name) - 1) ELSE name
        n == Len(PendingPrefix)
    IN  /\ Len(core) = n + 4 + Len(SummarySuffix)
        /\ SubSeq(core, 1, n) = PendingPrefix
        /\ \A k \in (n + 1)..(n + 4) : IsDigit(core[k])
        /\ SubSeq(core, n + 5, Len(core)) = SummarySuffix

\* new_name = f"{match.group(1)} Summary"
new_name(name) ==
    SubSeq(name, Len(PendingPrefix) + 1, Len(PendingPrefix) + 4) \o SummarySuffix

\* the files of the Summary folder before the run
SummaryFolderFiles ==
    { [id |-> 1, name |-> Pending2025, parent |-> SummaryName],
      [id |-> 2, name |-> Pending2020, parent |-> SummaryName],
      [id |-> 3, name |-> LOCK_FILE_NAME, parent |-> SummaryName] }

\* what the first sheet of a file holds: the rows it had before the run, or
\* only a header row
FirstContents == {"original", "header_only"}

\* the calls made for one file, in their order
FileSteps == <<"read", "dedup", "clear", "write", "format", "rename">>

NotRunning == [pc |-> "idle", left |-> {}, current |-> 0, step |-> 0, failed |-> {},
               timed_out |-> FALSE, released |-> FALSE]

DedupFilesInit ==
    /\ NoEngine
    /\ pc = "files"
    /\ folder_locks = <<>>
    /\ clock = 0
    /\ \E files \in SUBSET SummaryFolderFiles :
        \E sheets \in [{f.id : f \in {g \in files : g.name # LOCK_FILE_NAME}}
                          -> [content : FirstContents, formatted : {FALSE}]] :
            drive = [folders |-> {SummaryName}, files |-> files,
                     next_id |-> 1 + Cardinality(SummaryFolderFiles), sheets |-> sheets]
    /\ runs = [r \in {1} |-> NotRunning]
    /\ log = <<>>

\* if not try_lock_folder(SUMMARY_FOLDER_NAME): return
DedupRefused ==
    /\ runs[1].pc = "idle"
    /\ log = <<>>
    /\ ~try_lock_folder(drive, SummaryName)
    /\ log' = Append(log, [fn |-> "deduplicate_summaries", acquired |-> FALSE])
    /\ UNCHANGED <<engine, pc, folder_locks, clock, drive, runs>>

\* the lock is taken; files = list_files_in_folder(summary_folder_id)
DedupBegins ==
    /\ runs[1].pc = "idle"
    /\ log = <<>>
    /\ try_lock_folder(drive, SummaryName)
    /\ drive' = DriveAfterTryLock(drive, SummaryName)
    /\ runs' = [runs EXCEPT ![1].pc = "loop",
                             ![1].left = {f.id : f \in {g \in drive'.files :
                                                           g.parent = SummaryName}}]
    /\ UNCHANGED <<engine, pc, folder_locks, clock, log>>

NameOf(d, id) == (CHOOSE f \in d.files : f.id = id).name

\* an iteration of "for file in files" that ends in a continue before any
\* call for the file: the name is not that of a pending summary
SkipFile ==
    \E id \in runs[1].left :
        /\ runs[1].pc = "loop"
        /\ ~IsPendingName(NameOf(drive, id))
        /\ runs' = [runs EXCEPT ![1].left = @ \ {id}]
        /\ UNCHANGED <<engine, pc, folder_locks, clock, drive, log>>

\* elapsed > MAX_RUNTIME: break
TimeLimit ==
    /\ runs[1].pc = "loop"
    /\ runs[1].left # {}
    /\ runs' = [runs EXCEPT ![1].left = {}, ![1].timed_out = TRUE]
    /\ UNCHANGED <<engine, pc, folder_locks, clock, drive, log>>

\* the try block is entered for a pending summary
TakeFile ==
    \E id \in runs[1].left :
        /\ runs[1].pc = "loop"
        /\ IsPendingName(NameOf(drive, id))
        /\ runs' = [runs EXCEPT ![1].pc = "file", ![1].left = @ \ {id},
                                 ![1].current = id, ![1].step = 1]
        /\ UNCHANGED <<engine, pc, folder_locks, clock, drive, log>>

\* the Drive after the call of this step has succeeded
AfterStep(d, id, step) ==
    CASE step = "clear"  -> [d EXCEPT !.sheets[id].content = "cleared",
                                      !.sheets[id].formatted = FALSE]
      [] step = "write"  -> [d EXCEPT !.sheets[id].content = "deduplicated"]
      [] step = "format" -> [d EXCEPT !.sheets[id].formatted = TRUE]
      [] step = "rename" ->
            [d EXCEPT !.files = {IF f.id = id THEN [f EXCEPT !.name = new_name(f.name)]
                                 ELSE f : f \in @}]
      [] OTHER -> d

\* the next call for the file succeeds; after the last one the loop goes on
FileStep ==
    /\ runs[1].pc = "file"
    /\ ~(FileSteps[runs[1].step] = "read"
          /\ drive.sheets[runs[1].current].content = "header_only")
    /\ drive' = AfterStep(drive, runs[1].current, FileSteps[runs[1].step])
    /\ runs' = IF runs[1].step = Len(FileSteps)
               THEN [runs EXCEPT ![1].pc = "loop", ![1].current = 0, ![1].step = 0]
               ELSE [runs EXCEPT ![1].step = @ + 1]
    /\ UNCHANGED <<engine, pc, folder_locks, clock, log>>

\* len(data) < 2: the file is skipped with a warning
HeaderOnlyFile ==
    /\ runs[1].pc = "file"
    /\ FileSteps[runs[1].step] = "read"
    /\ drive.sheets[runs[1].current].content = "header_only"
    /\ runs' = [runs EXCEPT ![1].pc = "loop", ![1].current = 0, ![1].step = 0]
    /\ UNCHANGED <<engine, pc, folder_locks, clock, drive, log>>

\* the next call for the file raises: "except Exception" logs the error and
\* the loop goes on
FileStepRaises ==
    /\ runs[1].pc = "file"
    /\ runs' = [runs EXCEPT ![1].pc = "loop", ![1].current = 0, ![1].step = 0,
                             ![1].failed = @ \cup {runs[1].current}]
    /\ UNCHANGED <<engine, pc, folder_locks, clock, drive, log>>

\* finally: release_folder_lock(SUMMARY_FOLDER_NAME); the function returns
DedupFinally ==
    /\ runs[1].pc = "loop"
    /\ runs[1].left = {}
    /\ drive' \in release_folder_lock(drive, SummaryName)
    /\ runs' = [runs EXCEPT ![1].pc = "done", ![1].released = TRUE]
    /\ log' = Append(log, [fn |-> "deduplicate_summaries", acquired |-> TRUE])
    /\ UNCHANGED <<engine, pc, folder_locks, clock>>

DedupFilesNext ==
    \/ DedupRefused
    \/ DedupBegins
    \/ SkipFile
    \/ TimeLimit
    \/ TakeFile
    \/ FileStep
    \/ HeaderOnlyFile
    \/ FileStepRaises
    \/ DedupFinally

DedupFilesSpec == DedupFilesInit /\ [][DedupFilesNext]_vars

(* ------------------- the specification's vocabulary ------------------- *)

Returned == pc \in {"returned", "rerun"}

\* a canonical field is present when the canonical header has it in any case
Present(f) == \E k \in 1..Len(headers) : lower(headers[k]) = lower(f)
ColOf(f) == CHOOSE k \in 1..Len(headers) : lower(headers[k]) = lower(f)

PrimaryCols   == {ColOf(f) : f \in {g \in {Title, Remix, Artist} : Present(g)}}
SecondaryCols == {ColOf(f) : f \in {g \in {Comment, Genre, Year, BPM} : Present(g)}}

SamePrimary(x, y) == \A c \in PrimaryCols : x[c] = y[c]
SecondaryCompatible(x, y) ==
    \A c \in SecondaryCols : x[c] = <<>> \/ y[c] = <<>> \/ x[c] = y[c]

\* every present primary or secondary field is spelled as in desired_order
CanonicalSpelling == \A f \in {g \in Range(dedup_fields) : Present(g)} : InSeq(f, headers)

Processed == 1..Len(folded)
RowsInto(g) == {k \in Processed : folded[k].group = g}

(* ------------------------------- C1 ----------------------------------- *)

LinkedSet(S) ==
    \A a \in S : \A b \in S :
        /\ SamePrimary(folded[a].aligned, folded[b].aligned)
        /\ SecondaryCompatible(folded[a].aligned, folded[b].aligned)

Creators == {k \in Processed : \A m \in 1..(k - 1) : folded[m].group # folded[k].group}

\* the representative of the group created by row c, in its key columns
ExactMatch(r, c) ==
    /\ SamePrimary(folded[r].aligned, folded[c].aligned)
    /\ SecondaryCompatible(folded[r].aligned, folded[c].aligned)

\* C2: every row goes to the earliest-created group whose representative it
\* equals in every primary field and is compatible with in every secondary
\* field, and only when there is none it seeds a new group, appended last
\* with count 1 and no flag
C2_ExactMatchRule ==
    \A r \in Processed :
        LET earlier == {c \in Creators : c < r /\ ExactMatch(r, c)}
        IN  IF earlier = {}
            THEN /\ r \in Creators
                 /\ folded[r].group = Cardinality({c \in Creators : c < r}) + 1
            ELSE \E c \in earlier :
                    /\ \A d \in earlier : c <= d
                    /\ folded[r].group = folded[c].group

(* ------------------------------- C3 ----------------------------------- *)

RECURSIVE SumCounts(_)
SumCounts(groups) ==
    IF Len(groups) = 0 THEN 0
    ELSE groups[Len(groups)].count + SumCounts(SubSeq(groups, 1, Len(groups) - 1))

\* C3: after any prefix of the rows, every group's count is at least 1 and
\* is the number of rows folded into the group; the counts sum to the number
\* of rows processed
C3_CountIsRowsFolded ==
    /\ \A g \in 1..Len(deduped_rows) :
          /\ deduped_rows[g].count >= 1
          /\ deduped_rows[g].count = Cardinality(RowsInto(g))
    /\ \A k \in Processed : folded[k].group \in 1..Len(deduped_rows)
    /\ SumCounts(deduped_rows) = Len(folded)

\* two groups, one of them with two rows folded into it
C3_Witness ==
    /\ pc = "rows"
    /\ Len(deduped_rows) = 2
    /\ \E g \in 1..2 : deduped_rows[g].count = 2

(* ------------------------------- C4 ----------------------------------- *)

\* C4: with no primary field in the canonical header the engine does not
\* return groups into which rows were merged
C4_NoKeyNoMerge ==
    ~ ( /\ Returned
        /\ PrimaryCols = {}
        /\ \E g \in 1..Len(deduped_rows) : deduped_rows[g].count > 1 )

(* ------------------------------- C5 ----------------------------------- *)

\* the cell of the sheet's column named h (any case) in the row, else empty
CellOf(row, h) ==
    IF \E c \in 1..Len(all_headers) : lower(all_headers[c]) = lower(h) /\ c <= Len(row)
    THEN row[CHOOSE c \in 1..Len(all_headers) :
                lower(all_headers[c]) = lower(h) /\ c <= Len(row)]
    ELSE <<>>

\* C5: aligning never raises, ragged rows included, and gives one value per
\* canonical header: the row's cell of that column, else the empty string
C5_AlignmentTotal ==
    /\ pc # "raised"
    /\ \A k \in Processed :
          /\ Len(folded[k].aligned) = Len(headers)
          /\ \A c \in 1..Len(headers) :
                folded[k].aligned[c] = CellOf(folded[k].row, headers[c])

(* ------------------------------- C6 ----------------------------------- *)

\* C6: two rows that differ in a primary column, whatever the case of its
\* header, are never folded into the same group
C6_PrimaryAlwaysKeys ==
    \A a \in Processed : \A b \in Processed :
        ~SamePrimary(folded[a].aligned, folded[b].aligned)
            => folded[a].group # folded[b].group

(* ------------------------------- C7 ----------------------------------- *)

DedupCols == PrimaryCols \cup SecondaryCols

\* normalizedSimilarity: 1 - editDistance / max(len), 0 when both are empty
NormalizedSimilarity(a, b) ==
    IF Len(a) = 0 /\ Len(b) = 0 THEN Frac(0, 1)
    ELSE LET longest == IF Len(a) >= Len(b) THEN Len(a) ELSE Len(b)
         IN  Frac(longest - levenshtein_distance(a, b), longest)

\* cleanTitle: lowercase, trim, strip the "(...)" segments
CleanTitle(t) == strip(RemoveParens(lower(t)))

\* matchScore over the columns c..Len(headers): [numerator, denominator]
RECURSIVE MatchScoreFrom(_, _, _)
MatchScoreFrom(x, y, c) ==
    IF c > Len(headers) THEN [numerator |-> Frac(0, 1), denominator |-> 0]
    ELSE LET rest == MatchScoreFrom(x, y, c + 1)
         IN  IF c \notin DedupCols THEN rest
             ELSE [numerator |->
                      FracAdd(rest.numerator,
                              IF x[c] = <<>> \/ y[c] = <<>> THEN Frac(1, 1)
                              ELSE NormalizedSimilarity(x[c], y[c])),
                   denominator |-> rest.denominator + 1]

MatchScore(x, y) ==
    LET m == MatchScoreFrom(x, y, 1)
    IN  IF m.denominator = 0 THEN Frac(0, 1)
        ELSE Frac(m.numerator.num, m.numerator.den * m.denominator)

SharedFilledCount(x, y) == Cardinality({c \in DedupCols : x[c] # <<>> /\ y[c] # <<>>})

RequiredShared == IF Cardinality(PrimaryCols) >= 3 THEN 2 ELSE 1

AllFieldsCompatible(x, y) ==
    \A c \in DedupCols :
        \/ x[c] = <<>>
        \/ y[c] = <<>>
        \/ AtLeastHalf(NormalizedSimilarity(x[c], y[c]))
        \/ (Present(Title) /\ c = ColOf(Title) /\ CleanTitle(x[c]) = CleanTitle(y[c]))

FlagRule(x, y) ==
    /\ AtLeastHalf(MatchScore(x, y))
    /\ SharedFilledCount(x, y) >= RequiredShared
    /\ AllFieldsCompatible(x, y)

\* C7, on sheets whose header spells the fields canonically: after the
\* soft-match pass a group is Soft if and only if it has a partner group
\* with matchScore >= 0.5, sharedFilledCount >= requiredShared and
\* allFieldsCompatible
C7_SoftIffPartner ==
    (Returned /\ CanonicalSpelling) =>
        \A g \in 1..Len(deduped_rows) :
            (deduped_rows[g].match = "soft")
                <=> \E h \in 1..Len(deduped_rows) :
                        h # g /\ FlagRule(deduped_rows[g].data, deduped_rows[h].data)

(* ------------------------------- C8 ----------------------------------- *)

\* C8: a soft-match pass over groups that a pass has already annotated
\* leaves every representative, count and flag as it was
C8_RerunChangesNothing == [][Returned => deduped_rows' = deduped_rows]_vars

\* the pass was run again over a list holding a Soft and an unflagged group
C8_Witness ==
    /\ pc = "rerun"
    /\ \E g \in 1..Len(deduped_rows) : deduped_rows[g].match = "soft"
    /\ \E g \in 1..Len(deduped_rows) : deduped_rows[g].match = ""

(* ------------------------------- C9 ----------------------------------- *)

NoSharedField(g, h) == SharedFilledCount(deduped_rows[g].data, deduped_rows[h].data) = 0

\* C9: a pair of groups with no dedup field filled on both sides does not
\* meet the flag condition, and a group that shares no filled field with
\* any other group ends unflagged
C9_SharedFieldFloor ==
    Returned =>
        \A g \in 1..Len(deduped_rows) :
            /\ \A h \in 1..Len(deduped_rows) :
                  (h # g /\ NoSharedField(g, h))
                      => ~FlagCondition(deduped_rows[g].data, deduped_rows[h].data,
                                        primary_indices, secondary_indices)
            /\ (\A h \in 1..Len(deduped_rows) : h # g => NoSharedField(g, h))
                  => deduped_rows[g].match = ""

\* a group with two partners, sharing no filled field with either
C9_Witness ==
    /\ Returned
    /\ Len(deduped_rows) = 3
    /\ \E g \in 1..3 : \A h \in 1..3 : h # g => NoSharedField(g, h)

(* ------------------------------- C10 ---------------------------------- *)

\* the two rows of the example: the titles 'Blue Monday' and 'Blue Monday
\* (Radio Edit)', the artist 'New Order' on both, everything else empty
BlueMondayInput ==
    /\ Len(folded) = 2
    /\ Present(Title) /\ Present(Artist)
    /\ {folded[1].aligned[ColOf(Title)], folded[2].aligned[ColOf(Title)]}
          = {BlueMonday, BlueMondayRadioEdit}
    /\ \A k \in 1..2 :
          /\ folded[k].aligned[ColOf(Artist)] = NewOrder
          /\ \A c \in 1..Len(headers) :
                c \notin {ColOf(Title), ColOf(Artist)} => folded[k].aligned[c] = <<>>

\* C10: the two 'Blue Monday' rows stay two groups and both end Soft
C10_BlueMondaySoft ==
    (Returned /\ BlueMondayInput) =>
        /\ Len(deduped_rows) = 2
        /\ \A g \in 1..2 : deduped_rows[g].match = "soft"

C10_Witness == Returned /\ BlueMondayInput /\ Len(deduped_rows) = 2

(* ------------------------------- C11 ---------------------------------- *)

Written == pc \in {"written", "replayed"}

\* the data rows the caller wrote: final_rows without its header row
DataRows == Tail(final_rows)

ExclusionPhrases == {RoutinePhrase, OpenPhrase, FxPhrase}
HasExclusionPhrase(cell) == \E ph \in ExclusionPhrases : Contains(lower(cell), ph)

\* C11: no data row written by either caller has, in the Comment column
\* (whatever the case of its header), a cell that contains an exclusion
\* phrase case-insensitively
C11_NoExcludedRowEmitted ==
    (Written /\ Present(Comment)) =>
        \A k \in 1..Len(DataRows) : ~HasExclusionPhrase(DataRows[k][ColOf(Comment)])

(* ------------------------------- C12 ---------------------------------- *)

Groups == 1..Len(deduped_rows)

\* the group a written data row is the row of
GroupOfRow(k) ==
    CHOOSE g \in Groups : EmittedRow(variant, headers, deduped_rows[g]) = DataRows[k]

\* the Title of a group, the empty string when there is no Title column
TitleOf(g) == IF Present(Title) THEN deduped_rows[g].data[ColOf(Title)] ELSE <<>>

IsSoftGroup(g) == deduped_rows[g].match = "soft"

\* a group is excluded when its Comment holds an exclusion phrase
Excluded(g) ==
    Present(Comment) /\ HasExclusionPhrase(deduped_rows[g].data[ColOf(Comment)])

\* g is written before h: Soft before non-Soft, then the smaller Title, then
\* the group created first
WrittenBefore(g, h) ==
    \/ IsSoftGroup(g) /\ ~IsSoftGroup(h)
    \/ /\ IsSoftGroup(g) <=> IsSoftGroup(h)
       /\ \/ StrLess(TitleOf(g), TitleOf(h))
          \/ TitleOf(g) = TitleOf(h) /\ g < h

\* C12: every group that is not excluded is written, and the written data
\* rows are the Soft groups followed by the others, each part in ascending
\* order of Title, groups of equal Title in the order of their creation
C12_OutputOrder ==
    Written =>
        /\ \A g \in Groups : ~Excluded(g) => \E k \in 1..Len(DataRows) : GroupOfRow(k) = g
        /\ \A k \in 1..(Len(DataRows) - 1) : WrittenBefore(GroupOfRow(k), GroupOfRow(k + 1))

(* ------------------------------- C13 ---------------------------------- *)

Grouped ==
    FoldRows(variant, headers, header_map, primary_indices, secondary_indices,
             [k \in 1..Len(folded) |-> folded[k].row])

SoftSet(groups) == {g \in 1..Len(groups) : groups[g].match = "soft"}

\* C14: whatever the order in which the pairs are compared, no comparison
\* changes a representative or a count, and once all pairs are compared the
\* Soft groups are those the sequential i < j pass flags
C14_AnyOrderSameSoftSet ==
    /\ pc \in {"pairs", "returned"} =>
          /\ Len(deduped_rows) = Len(Grouped)
          /\ \A g \in Groups :
                /\ deduped_rows[g].data = Grouped[g].data
                /\ deduped_rows[g].count = Grouped[g].count
    /\ pc = "returned" =>
          SoftSet(deduped_rows)
              = SoftSet(SoftMatchPass(Grouped, primary_indices, secondary_indices))

\* three groups, some flagged and some not, with the pair (1, 2), the first
\* of the sequential pass, still to be compared after the two others
C14_Witness ==
    /\ pc = "pairs"
    /\ Len(deduped_rows) = 3
    /\ pending = {<<1, 2>>}
    /\ SoftSet(deduped_rows) # {}
    /\ SoftSet(deduped_rows) # Groups


(* ------------------------------- C15 ---------------------------------- *)

\* x = y of two fractions
FracEq(x, y) == x.num * y.den = y.num * x.den

EitherEmpty(x, y, idx) == x[idx.index] = <<>> \/ y[idx.index] = <<>>

\* matchScore as claimed: [numerator, denominator], an index with an empty
\* side adding 1 to both, a filled index its similarity and 1
RECURSIVE ClaimedScoreParts(_, _, _)
ClaimedScoreParts(x, y, indices) ==
    IF Len(indices) = 0 THEN [numerator |-> Frac(0, 1), denominator |-> 0]
    ELSE LET idx == Head(indices)
             rest == ClaimedScoreParts(x, y, Tail(indices))
         IN  [numerator |->
                  FracAdd(rest.numerator,
                          IF EitherEmpty(x, y, idx) THEN Frac(1, 1)
                          ELSE string_similarity(x[idx.index], y[idx.index])),
              denominator |-> rest.denominator + 1]

ClaimedScore(x, y, indices) ==
    LET parts == ClaimedScoreParts(x, y, indices)
    IN  IF parts.denominator = 0 THEN Frac(0, 1)
        ELSE Frac(parts.numerator.num, parts.numerator.den * parts.denominator)

\* C15: the score of the soft-match pass is numerator / denominator with
\* empties counted as consistent, so it is greater than 0 when there is an
\* index and every index has an empty side
C15_EmptiesCountAsConsistent ==
    call.fn = "get_dedup_match_score" =>
        /\ FracEq(call.result, ClaimedScore(call.data1, call.data2, call.indices))
        /\ ( /\ Len(call.indices) >= 1
             /\ \A k \in 1..Len(call.indices) :
                   EitherEmpty(call.data1, call.data2, call.indices[k]) )
              => call.result.num > 0

(* ------------------------------- C16 ---------------------------------- *)

C17_SimilarityIsEditDistance ==
    call.fn = "string_similarity" =>
        /\ FracEq(call.result, NormalizedSimilarity(call.data1[1], call.data2[1]))
        /\ (call.data1[1] = call.data2[1] /\ call.data1[1] # <<>>)
              => FracEq(call.result, Frac(1, 1))
        /\ call.result.num >= 0 /\ call.result.num <= call.result.den

(* ------------------------------- C18 ---------------------------------- *)

\* u is t followed by a space and a parenthetical
WithParenthetical(t, u) ==
    /\ Len(u) >= Len(t) + 3
    /\ SubSeq(u, 1, Len(t)) = t
    /\ u[Len(t) + 1] = " " /\ u[Len(t) + 2] = "("
    /\ u[Len(u)] = ")"
    /\ \A k \in (Len(t) + 3)..(Len(u) - 1) : u[k] \notin {"(", ")"}

\* C18: clean_title lowercases, trims and removes the parenthesised
\* segments, so a title and the same title with a parenthetical appended
\* clean to the same string
C18_CleanTitleStripsParentheticals ==
    call.fn = "clean_title" =>
        /\ call.result[1] = CleanTitle(call.data1[1])
        /\ WithParenthetical(call.data1[1], call.data2[1])
              => call.result[1] = call.result[2]


(* ------------------------------- C19 ---------------------------------- *)

\* x < 0.5
BelowHalf(x) == 2 * x.num < x.den

\* some field other than Title is filled on both sides with a similarity
\* below 0.5
Vetoed(x, y) ==
    \E c \in DedupCols :
        /\ ~(Present(Title) /\ c = ColOf(Title))
        /\ x[c] # <<>> /\ y[c] # <<>>
        /\ BelowHalf(string_similarity(x[c], y[c]))

\* C19: a pair of groups with a field other than Title filled on both sides
\* and less than 0.5 similar is never flagged, equal cleaned values
\* notwithstanding
C19_SingleFieldVeto ==
    pc \in {"returned", "written", "replayed"} =>
        \A g \in Groups : \A h \in Groups :
            (g # h /\ Vetoed(deduped_rows[g].data, deduped_rows[h].data))
                => ~FlagCondition(deduped_rows[g].data, deduped_rows[h].data,
                                  primary_indices, secondary_indices)


(* ------------------------------- C20 ---------------------------------- *)

\* the integer a cell stands for: an optional sign and decimal digits, and 0
\* for an empty or any other cell
CellValue(cell) ==
    LET signed == Len(cell) > 0 /\ cell[1] \in {"+", "-"}
        digits == IF signed THEN Tail(cell) ELSE cell
    IN  IF Len(digits) = 0 \/ \E k \in 1..Len(digits) : digits[k] \notin Digits THEN 0
        ELSE IF signed /\ cell[1] = "-" THEN 0 - DigitsValue(digits)
        ELSE DigitsValue(digits)

RECURSIVE Decimal(_)
Decimal(n) ==
    IF n < 0 THEN <<"-">> \o Decimal(0 - n)
    ELSE IF n < 10 THEN <<DigitChars[n + 1]>>
    ELSE Decimal(n \div 10) \o <<DigitChars[(n % 10) + 1]>>

YearCols == {c \in 1..Len(headers) : IsYearHeader(headers[c])}

\* C20: in the complete variant, when a row merges into a group, each year
\* cell of the group becomes the decimal string of the sum of the integer
\* values of the group's cell and of the row's cell, and nothing is raised
C20_YearBucketMerge ==
    [][ ( /\ variant = "complete"
          /\ pc = "rows"
          /\ Len(folded') = Len(folded) + 1 )
        => /\ pc' = "rows"
           /\ Len(deduped_rows') = Len(deduped_rows) =>
                 LET f == folded'[Len(folded')]
                 IN  \A c \in YearCols :
                        deduped_rows'[f.group].data[c]
                            = Decimal(CellValue(deduped_rows[f.group].data[c])
                                      + CellValue(f.aligned[c])) ]_vars

\* a group of the complete variant into which a '3' and a '4' were merged,
\* and then a cell that is no integer
C20_Witness ==
    /\ variant = "complete"
    /\ YearCols # {}
    /\ Len(folded) = 3 /\ Len(deduped_rows) = 1
    /\ \A c \in YearCols :
          /\ {folded[1].aligned[c], folded[2].aligned[c]} = {three, four}
          /\ folded[3].aligned[c] = junk
          /\ deduped_rows[1].data[c] = <<"7">>


(* ------------------------------- C21 ---------------------------------- *)

\* the groups the caller writes: counted at least once and not excluded
WrittenGroups == {g \in Groups : deduped_rows[g].count > 0 /\ ~Excluded(g)}

\* the row a group is to be written as in the complete output: a year cell
\* holding '0' is empty, every other cell is the group's
ZeroCleared(data) ==
    [c \in 1..Len(data) |->
        IF c \in YearCols /\ data[c] = <<"0">> THEN <<>> ELSE data[c]]

Observed(name) == \E k \in 1..Len(all_headers) : lower(all_headers[k]) = lower(name)

\* the fields of the desired order that are observed, in desired order
ObservedFields == SelectSeq(desired_order, Observed)

FourDigits(h) == Len(h) = 4 /\ \A k \in 1..4 : h[k] \in Digits

\* the observed 4-digit headers, each at its first occurrence
RECURSIVE FirstSeenYears(_)
FirstSeenYears(k) ==
    IF k = 0 THEN <<>>
    ELSE LET before == FirstSeenYears(k - 1)
         IN  IF FourDigits(all_headers[k]) /\ ~InSeq(all_headers[k], before)
             THEN Append(before, all_headers[k]) ELSE before

\* C22: the canonical header is, whatever the case of the observed names,
\* the observed fields of the desired order, each once and in that order,
\* followed in the complete variant, and only there, by each observed
\* 4-digit header once, in the order in which they are first seen
C22_HeaderProjection ==
    pc = "projected" =>
        MapSeq(headers, lower)
            = MapSeq(ObservedFields, lower)
                \o (IF variant = "complete" THEN FirstSeenYears(Len(all_headers)) ELSE <<>>)


(* ------------------------------- C23 ---------------------------------- *)

LengthValues == {E, three, four}

\* the column of the sheet the engine reads Length from
LengthColumn == header_map[lower(Length)]

\* the inputs that differ from the processed rows in Length values only
LengthVariants ==
    {[k \in Processed |->
        IF Len(folded[k].row) >= LengthColumn
        THEN [folded[k].row EXCEPT ![LengthColumn] = f[k]]
        ELSE folded[k].row] : f \in [Processed -> LengthValues]}

\* C23: an input that differs from the processed one in Length values only
\* is partitioned into the same groups, with the same counts and Soft flags
C23_LengthDoesNotLink ==
    (pc = "returned" /\ Present(Length)) =>
        \A rows \in LengthVariants :
            LET grouped == FoldRows(variant, headers, header_map,
                                    primary_indices, secondary_indices, rows)
                flagged == SoftMatchPass(grouped, primary_indices, secondary_indices)
                into == GroupOfEach(variant, headers, header_map,
                                    primary_indices, secondary_indices, rows)
            IN  /\ Len(flagged) = Len(deduped_rows)
                /\ \A k \in Processed : into[k] = folded[k].group
                /\ \A g \in 1..Len(flagged) :
                      /\ flagged[g].count = deduped_rows[g].count
                      /\ flagged[g].match = deduped_rows[g].match

\* rows of different Length were folded into one group, and the group is Soft
C23_Witness ==
    /\ pc = "returned" /\ Present(Length)
    /\ \E a, b \in Processed :
          /\ folded[a].group = folded[b].group
          /\ folded[a].aligned[ColOf(Length)] = three
          /\ folded[b].aligned[ColOf(Length)] = four
          /\ deduped_rows[folded[a].group].match = "soft"


(* ------------------------------- C24 ---------------------------------- *)

Calls == 1..Len(log)

IsTry(i, name) == log[i].fn = "try_lock_folder" /\ log[i].name = name
IsRelease(i, name) == log[i].fn = "release_folder_lock" /\ log[i].name = name

SevenMinutes == 7 * Minute

\* at call i the lock that call j took on the name is still held: no release
\* of the name lies between them and less than 7 minutes have passed
StillHeld(j, i, name) ==
    /\ j < i /\ IsTry(j, name) /\ log[j].result
    /\ \A k \in (j + 1)..(i - 1) : ~IsRelease(k, name)
    /\ log[i].at - log[j].at < SevenMinutes

\* the last call before i about the name is a release
JustReleased(i, name) ==
    \E k \in 1..(i - 1) :
        /\ IsRelease(k, name)
        /\ \A m \in (k + 1)..(i - 1) : log[m].name # name

LockFilesOf(d, name) == {f \in d.files : f.parent = name /\ f.name = LOCK_FILE_NAME}

\* the call that returns in this step
Returning == log'[Len(log')]

\* C25: try_lock_folder returns False and creates nothing when the folder
\* holds a lock file, and otherwise creates exactly one lock file in it and
\* returns True; release_folder_lock returns, without raising, having
\* requested the deletion of every lock file of the folder, also of those
\* whose deletion failed
C25_DriveFileLock ==
    [][ (pc = "drive" /\ Len(log') = Len(log) + 1)
        => /\ Returning.fn = "try_lock_folder" =>
                 IF LockFilesOf(drive, Returning.name) # {}
                 THEN ~Returning.result /\ drive'.files = drive.files
                 ELSE /\ Returning.result
                      /\ \E f \in drive'.files \ drive.files :
                            /\ f.parent = Returning.name /\ f.name = LOCK_FILE_NAME
                            /\ drive'.files = drive.files \cup {f}
           /\ Returning.fn = "release_folder_lock" =>
                 /\ Returning.result
                 /\ {f.id : f \in LockFilesOf(drive', Returning.name)}
                        \subseteq Returning.requested
                 /\ Returning.requested = Returning.found ]_vars

\* a folder with a file that is no lock: the lock is taken, refused, and a
\* release has asked for the deletion of a lock file that is still there
C25_Witness ==
    /\ pc = "drive" /\ Len(log) = 3
    /\ \E f \in drive.files : f.parent = SummaryName /\ f.name = Summary2025
    /\ log[1].fn = "try_lock_folder" /\ log[1].name = SummaryName /\ log[1].result
    /\ log[2].fn = "try_lock_folder" /\ log[2].name = SummaryName /\ ~log[2].result
    /\ log[3].fn = "release_folder_lock" /\ log[3].name = SummaryName
    /\ log[3].requested # {}
    /\ {f.id : f \in LockFilesOf(drive, SummaryName)} = log[3].requested


(* ------------------------------- C28 ---------------------------------- *)

\* the calls of try_lock_folder for the folder that returned True
Granted(name) ==
    {i \in Calls : log[i].fn = "try_lock_folder" /\ log[i].name = name /\ log[i].result}

\* C28: while nobody releases, at most one call of try_lock_folder for a
\* folder returns True, however the list and create calls of two runs are
\* interleaved, and the folder never holds more than one lock file
C28_DriveLockExcludes ==
    pc = "drive" =>
        \A name \in FolderNames :
            /\ Cardinality(Granted(name)) <= 1
            /\ Cardinality(LockFilesOf(drive, name)) <= 1


(* ------------------------------- C26 ---------------------------------- *)

\* the columns of the canonical header whose name is four digits
FourDigitCols == {c \in 1..Len(headers) : FourDigits(headers[c])}

\* group g is after the step what it was before it
Untouched(g) == deduped_rows'[g] = deduped_rows[g]

\* group g has taken the row: its count is one more, its flag is the same,
\* and its representative is the same outside the year cells of the
\* complete variant
TookRow(g) ==
    /\ deduped_rows'[g].count = deduped_rows[g].count + 1
    /\ deduped_rows'[g].match = deduped_rows[g].match
    /\ Len(deduped_rows'[g].data) = Len(deduped_rows[g].data)
    /\ \A c \in 1..Len(headers) :
          (variant = "simple" \/ c \notin FourDigitCols)
              => deduped_rows'[g].data[c] = deduped_rows[g].data[c]

\* C26: the processing of one row either makes exactly one existing group
\* take the row or appends exactly one group; every other group, and the
\* order of the groups, stay as they are, and no group disappears
C26_GroupingStepFrame ==
    [][ (pc = "rows" /\ Len(folded') = Len(folded) + 1)
        => \/ /\ Len(deduped_rows') = Len(deduped_rows)
              /\ \E g \in Groups :
                    /\ TookRow(g)
                    /\ \A h \in Groups \ {g} : Untouched(h)
           \/ /\ Len(deduped_rows') = Len(deduped_rows) + 1
              /\ \A h \in Groups : Untouched(h) ]_vars

\* the complete variant, two groups: the last of three rows went into the
\* first group, whose year cell is now a sum and whose other cells are those
\* of its first row
C26_Witness ==
    /\ variant = "complete" /\ pc = "rows"
    /\ Len(folded) = 3 /\ Len(deduped_rows) = 2
    /\ folded[1].group = 1 /\ folded[2].group = 2 /\ folded[3].group = 1
    /\ deduped_rows[1].count = 2
    /\ FourDigitCols # {}
    /\ \A c \in FourDigitCols :
          folded[1].aligned[c] = <<>> /\ deduped_rows[1].data[c] = three
    /\ \A c \in 1..Len(headers) \ FourDigitCols :
          deduped_rows[1].data[c] = folded[1].aligned[c]


(* ------------------------------- C27 ---------------------------------- *)

\* C27: when a run of generate_next_missing_summary that took the Summary
\* lock returns, on whatever path, the Summary folder holds no lock file
C27_LockReleasedOnReturn ==
    [][ (pc = "next_summary" /\ Len(log') = Len(log) + 1 /\ Returning.acquired)
        => LockFilesOf(drive', SummaryName) = {} ]_vars


(* ------------------------------- C29 ---------------------------------- *)

\* the summaries of the Summary folder
SummaryIds == DOMAIN drive.sheets

\* C29: a file whose processing failed is still named '_pending_YYYY
\* Summary' and its sheet holds the rows it had before the run; unless the
\* time limit ends the loop, every pending summary with rows is dealt with,
\* failures or not; the run ends with the release of the Summary lock; and
\* a file no longer named '_pending_' has had its deduplicated rows written
\* and formatted
C29_FailureAtomicity ==
    pc = "files" =>
        /\ \A id \in runs[1].failed :
              /\ IsPendingName(NameOf(drive, id))
              /\ drive.sheets[id].content \in FirstContents
        /\ runs[1].pc = "done" =>
              /\ runs[1].released
              /\ ~runs[1].timed_out =>
                    \A id \in SummaryIds :
                        \/ id \in runs[1].failed
                        \/ ~IsPendingName(NameOf(drive, id))
                        \/ drive.sheets[id].content = "header_only"
        /\ \A id \in SummaryIds :
              ~IsPendingName(NameOf(drive, id)) =>
                  /\ drive.sheets[id].content = "deduplicated"
                  /\ drive.sheets[id].formatted


(* ------------------------------- C30 ---------------------------------- *)

\* the k-th written data row has the Soft highlight
Highlighted(k) == backgrounds[k + 1][1] = Yellow

\* C30: every written data row with the Soft highlight has another written
\* data row with which it meets the condition under which pairs are flagged
C30_SoftRowHasWrittenPartner ==
    Written =>
        \A k \in 1..Len(DataRows) :
            Highlighted(k) =>
                \E m \in 1..Len(DataRows) :
                    /\ m # k
                    /\ FlagCondition(DataRows[k], DataRows[m],
                                     primary_indices, secondary_indices)

=============================================================================
